---- MODULE Spec2Model ----
(***************************************************************************)
(* Transaction synchronisation and deduplication pipeline of the finance   *)
(* backend: PlaidService.sync_transactions (the paginated fetch) and the   *)
(* routes of api/routes/plaid.py that drive it against the database.       *)
(*                                                                         *)
(* The database is modelled as its committed tables (plaid_items,          *)
(* accounts, transactions) plus, per running task, the writes of its own   *)
(* session that are flushed but not yet committed.  The routes construct   *)
(* and query Account rows by user_id (plaid.py:106, plaid.py:213), so an   *)
(* Account row carries user_id here.                                       *)
(***************************************************************************)
EXTENDS Integers, Sequences, FiniteSets, TLC

(***************************************************************************)
(* Bounds of the model.                                                    *)
(***************************************************************************)
MaxRequests == 3        \* page requests one call of the service may issue
MaxTicks == 1           \* how far the clock advances
TicksPerDay == 2        \* clock resolution: instants per calendar day

(***************************************************************************)
(* Program constants.                                                      *)
(***************************************************************************)
batch_size == 500       \* plaid_service.py:153
DefaultWindowDays == 730 \* plaid_service.py:149

(***************************************************************************)
(* Null values.  None of Python is modelled by one sentinel per type.      *)
(***************************************************************************)
NoneDT == -1            \* Optional[datetime] = None
NoneStr == "None"       \* Optional[str] = None
NoneId == 0             \* a null key (row ids start at 1)

Min(a, b) == IF a < b THEN a ELSE b
Max(a, b) == IF a < b THEN b ELSE a

(***************************************************************************)
(* datetime: an instant is a number of ticks; .date() drops the time of    *)
(* day; timedelta(days=n) is n whole days.                                 *)
(***************************************************************************)
DateOf(dt) == dt \div TicksPerDay
Days(n) == n * TicksPerDay
Day0 == 19768           \* the calendar day at which the model's clock starts
Clock0 == Days(Day0)

VARIABLES
    plaid_items,    \* committed rows of table plaid_items
    accounts,       \* committed rows of table accounts
    transactions,   \* committed rows of table transactions
    now,            \* the wall clock, in ticks
    task,           \* per task: the position and locals of one sync
    response,       \* the last HTTP response produced by a route
    users,          \* committed rows of table users
    ai_insights     \* committed rows of table ai_insights

vars == <<plaid_items, accounts, transactions, now, task, response, users, ai_insights>>

Tasks == {1, 2}

(***************************************************************************)
(* The provider's records.  A provider transaction (the dict `txn` of      *)
(* plaid_service.py:186) has the keys the translation reads.  An absent    *)
(* merchant_name is NoneStr, an absent or empty category list is <<>>.     *)
(* The amount is what the provider sent, a number in some representation;  *)
(* float() keeps its numeric value.                                        *)
(***************************************************************************)
PageTxn(i) ==
    [transaction_id |-> i,
     account_id     |-> "acc-123",
     amount         |-> [repr |-> IF i % 2 = 0 THEN "int" ELSE "float", val |-> 50 + i],
     date           |-> Day0 - 30,
     merchant_name  |-> IF i % 2 = 0 THEN NoneStr ELSE "Merchant",
     name           |-> "Purchase",
     category       |-> IF i % 3 = 0 THEN <<>> ELSE <<"Food and Drink", "Restaurants">>,
     pending        |-> FALSE]

\* float(txn["amount"])                                   plaid_service.py:190
Float(a) == a.val

\* txn.get("merchant_name") or txn.get("name")            plaid_service.py:192
MerchantOrName(txn) ==
    IF txn.merchant_name = NoneStr \/ txn.merchant_name = ""
    THEN txn.name ELSE txn.merchant_name

\* txn["category"][0] if txn.get("category") else None    plaid_service.py:194-196
FirstCategory(txn) ==
    IF Len(txn.category) > 0 THEN txn.category[1] ELSE NoneStr

\* The dict appended to all_transactions                  plaid_service.py:187-198
Draft(txn) ==
    [external_id      |-> txn.transaction_id,
     plaid_account_id |-> txn.account_id,
     amount           |-> Float(txn.amount),
     date             |-> txn.date,
     merchant_name    |-> MerchantOrName(txn),
     description      |-> txn.name,
     category         |-> FirstCategory(txn),
     pending          |-> txn.pending]

\* for txn in transactions: all_transactions.append({...}) plaid_service.py:186-198
Drafts(page) == [i \in 1..Len(page) |-> Draft(page[i])]

(***************************************************************************)
(* One task: the locals of sync_transactions_background and of the         *)
(* PlaidService.sync_transactions call it makes.  requests and responses   *)
(* record the calls of self.client.transactions_get, in order.             *)
(***************************************************************************)
IdleTask ==
    [pc |-> "idle", item_id |-> NoneStr, user_id |-> NoneStr,
     arg_start |-> NoneDT, arg_end |-> NoneDT,
     access_token |-> NoneStr, start_date |-> NoneDT, end_date |-> NoneDT,
     offset |-> 0, has_more |-> TRUE, all_transactions |-> <<>>,
     requests |-> <<>>, responses |-> <<>>, called_at |-> NoneDT,
     error |-> "none", new_count |-> 0,
     session_new |-> {}, session_ts |-> <<>>,
     before_tx |-> {}, before_acc |-> {}]

\* Mutant of ServiceEntry: a default window of twelve months.
ServiceEntryOneYear(tk, tok, sd, ed) ==
    LET end_date == IF ed = NoneDT THEN now ELSE ed
        start_date == IF sd = NoneDT THEN end_date - Days(365) ELSE sd
    IN [tk EXCEPT !.pc = "fetch", !.access_token = tok,
                  !.arg_start = sd, !.arg_end = ed,
                  !.start_date = start_date, !.end_date = end_date,
                  !.offset = 0, !.has_more = TRUE, !.all_transactions = <<>>,
                  !.requests = <<>>, !.responses = <<>>, !.called_at = now,
                  !.error = "none"]

\* Entry of PlaidService.sync_transactions: the default window and the
\* loop's initial locals.                                 plaid_service.py:145-158
ServiceEntry(tk, tok, sd, ed) ==
    LET end_date == IF ed = NoneDT THEN now ELSE ed
        start_date == IF sd = NoneDT THEN end_date - Days(DefaultWindowDays) ELSE sd
    IN [tk EXCEPT !.pc = "fetch", !.access_token = tok,
                  !.arg_start = sd, !.arg_end = ed,
                  !.start_date = start_date, !.end_date = end_date,
                  !.offset = 0, !.has_more = TRUE, !.all_transactions = <<>>,
                  !.requests = <<>>, !.responses = <<>>, !.called_at = now,
                  !.error = "none"]

\* The TransactionsGetRequest of one iteration.           plaid_service.py:162-175
Request(tk) ==
    [access_token |-> tk.access_token,
     start_date   |-> DateOf(tk.start_date),
     end_date     |-> DateOf(tk.end_date),
     count        |-> batch_size,
     offset       |-> tk.offset]

\* Mutant of NextOffset: the offset advances by the page size asked for.
NextOffsetFullPage(offset, page) == offset + batch_size

\* offset += len(transactions)                            plaid_service.py:201
NextOffset(offset, page) == offset + Len(page)

\* Mutant of HasMore: the loop also continues at offset = total.
HasMoreInclusive(offset, total_transactions) == offset <= total_transactions

\* has_more = offset < total_transactions                 plaid_service.py:202
HasMore(offset, total_transactions) == offset < total_transactions

\* Mutant of AfterPage: the accumulator is replaced by each page.
AfterPageOverwrite(tk, resp) ==
    LET offset == NextOffset(tk.offset, resp.transactions)
        has_more == HasMore(offset, resp.total_transactions)
    IN [tk EXCEPT !.requests = Append(@, Request(tk)),
                  !.responses = Append(@, [n |-> Len(resp.transactions),
                                           total |-> resp.total_transactions]),
                  !.all_transactions = Drafts(resp.transactions),
                  !.offset = offset,
                  !.has_more = has_more,
                  !.pc = IF has_more THEN "fetch" ELSE "returned"]

\* One iteration of the while loop that gets a response.  plaid_service.py:161-205
AfterPage(tk, resp) ==
    LET offset == NextOffset(tk.offset, resp.transactions)
        has_more == HasMore(offset, resp.total_transactions)
    IN [tk EXCEPT !.requests = Append(@, Request(tk)),
                  !.responses = Append(@, [n |-> Len(resp.transactions),
                                           total |-> resp.total_transactions]),
                  !.all_transactions = @ \o Drafts(resp.transactions),
                  !.offset = offset,
                  !.has_more = has_more,
                  !.pc = IF has_more THEN "fetch" ELSE "returned"]

\* Mutant of AfterRaise: the exception is swallowed and the records
\* fetched so far are returned.
AfterRaiseReturnPartial(tk) ==
    [tk EXCEPT !.requests = Append(@, Request(tk)), !.pc = "returned",
               !.error = "provider"]

\* One iteration whose transactions_get call raises: the exception is
\* logged and re-raised.                                  plaid_service.py:177, 207-209
AfterRaise(tk) ==
    [tk EXCEPT !.requests = Append(@, Request(tk)), !.pc = "raised", !.error = "provider"]

\* The model lets a call issue at most cap requests: the response to the
\* last one allowed ends the loop (or the call raises).
Allowed(tk, resp, cap) ==
    /\ Len(tk.requests) < cap
    /\ (Len(tk.requests) + 1 = cap) =>
            ~HasMore(NextOffset(tk.offset, resp.transactions), resp.total_transactions)

FetchPage(t, resp) ==
    /\ task[t].pc = "fetch"
    /\ task[t].has_more
    /\ task' = [task EXCEPT ![t] = AfterPage(@, resp)]
    /\ UNCHANGED <<plaid_items, accounts, transactions, now, response, users, ai_insights>>

ProviderError(t) ==
    /\ task[t].pc = "fetch"
    /\ task[t].has_more
    /\ task' = [task EXCEPT ![t] = AfterRaise(@)]
    /\ UNCHANGED <<plaid_items, accounts, transactions, now, response, users, ai_insights>>

\* The wall clock advances.
Tick ==
    /\ now < Clock0 + MaxTicks
    /\ now' = now + 1
    /\ UNCHANGED <<plaid_items, accounts, transactions, task, response, users, ai_insights>>

(***************************************************************************)
(* SpecPage: PlaidService.sync_transactions called directly (as the tests  *)
(* of test_plaid_service.py call it) against a provider that serves pages  *)
(* of the records PageTxn(1), PageTxn(2), ... starting at the requested    *)
(* offset.  A response reports any total of PageTotals and carries either  *)
(* the full page for that total, min(count, total - offset) records, or a  *)
(* short page of ShortLens records.                                        *)
(***************************************************************************)
ShortLens == {0, 1}
PageTotals == {0, 750, 1001}
StartDates == {NoneDT, Days(Day0 - 45)}
EndDates == {NoneDT, Days(Day0 - 15) + 1}
FullPage(req, T) == Min(req.count, Max(T - req.offset, 0))

Slice(s, n) == [i \in 1..n |-> PageTxn(s + i)]

PageResponses(req) ==
    UNION {{[transactions |-> Slice(req.offset, n), total_transactions |-> T] :
                n \in ShortLens \cup {FullPage(req, T)}} : T \in PageTotals}

ServiceCall(t, sd, ed) ==
    /\ task[t].pc \in {"idle", "returned", "raised"}
    /\ task' = [task EXCEPT ![t] = ServiceEntry(IdleTask, "access-token", sd, ed)]
    /\ UNCHANGED <<plaid_items, accounts, transactions, now, response, users, ai_insights>>

InitPage ==
    /\ plaid_items = {}
    /\ accounts = {}
    /\ transactions = {}
    /\ now = Clock0
    /\ task = [t \in Tasks |-> IdleTask]
    /\ response = [status |-> 0]
    /\ users = {}
    /\ ai_insights = {}

NextPage ==
    \/ \E sd \in StartDates, ed \in EndDates : ServiceCall(1, sd, ed)
    \/ \E resp \in PageResponses(Request(task[1])) :
            Allowed(task[1], resp, MaxRequests) /\ FetchPage(1, resp)
    \/ Len(task[1].requests) < MaxRequests /\ ProviderError(1)
    \/ Tick

SpecPage == InitPage /\ [][NextPage]_vars

(***************************************************************************)
(* The database.  A row of plaid_items is [user_id, access_token,          *)
(* item_id]; a row of accounts is [id, user_id, plaid_account_id,          *)
(* last_sync_timestamp]; a row of transactions carries the columns of      *)
(* models/transaction.py.  Primary keys (uuid4) are fresh numbers.         *)
(***************************************************************************)
Users == {"u1", "u2"}

MaxOf(S) == IF S = {} THEN 0 ELSE CHOOSE m \in S : \A x \in S : x <= m

\* default=lambda: str(uuid.uuid4()): a key no row of the table has
NewId(rows) == MaxOf({r.id : r \in rows}) + 1

\* Mutant of ItemsOf: the item is looked up by its id alone.
ItemsOfAnyUser(item_id, user_id) == {p \in plaid_items : p.item_id = item_id}

\* select(PlaidItem).where(item_id == ..., user_id == ...)   plaid.py:144-149, 196-200
ItemsOf(item_id, user_id) ==
    {p \in plaid_items : p.item_id = item_id /\ p.user_id = user_id}

\* select(Account).where(Account.user_id == user_id)          plaid.py:213
AccountsOfUser(user_id) == {a \in accounts : a.user_id = user_id}

\* Mutant of AccountMap: the map holds the accounts of every user.
AccountMapAll(user_id) ==
    [pid \in {a.plaid_account_id : a \in accounts} |->
        (CHOOSE a \in accounts : a.plaid_account_id = pid).id]

\* accounts = {acc.plaid_account_id: acc.id for acc in ...}   plaid.py:214
AccountMap(user_id) ==
    [pid \in {a.plaid_account_id : a \in AccountsOfUser(user_id)} |->
        (CHOOSE a \in AccountsOfUser(user_id) : a.plaid_account_id = pid).id]

\* accounts.get(txn_data["plaid_account_id"])                 plaid.py:231
MapGet(m, k) == IF k \in DOMAIN m THEN m[k] ELSE NoneId

\* The table as it is once a session's written rows (inserted, or modified
\* under their primary key) are applied to it.
Applied(committed, written) ==
    {r \in committed : \A w \in written : w.id # r.id} \cup written

\* The rows that sessions have added and not yet committed or rolled back:
\* a uuid4 key collides with none of them either.
InFlight == UNION {task[t].session_new : t \in Tasks}

\* Mutant of Existing: the lookup finds nothing.
ExistingNever(visible, external_id) == {}

\* select(Transaction).where(external_id == ...), as the session sees the
\* table: the committed rows and its own flushed inserts.      plaid.py:220-225
Existing(visible, external_id) == {r \in visible : r.external_id = external_id}

\* Transaction(external_id=..., ..., source="plaid"); the column defaults
\* give is_reimbursement False and no ai_category.             plaid.py:229-238
NewTransaction(id, txn_data, accmap) ==
    [id               |-> id,
     external_id      |-> txn_data.external_id,
     account_id       |-> MapGet(accmap, txn_data.plaid_account_id),
     amount           |-> txn_data.amount,
     date             |-> txn_data.date,
     merchant_name    |-> txn_data.merchant_name,
     description      |-> txn_data.description,
     category         |-> txn_data.category,
     source           |-> "plaid",
     is_reimbursement |-> FALSE,
     ai_category      |-> NoneStr]

\* Mutant of MergeDrafts: a draft whose external id is stored overwrites
\* the stored row.
RECURSIVE MergeDraftsUpsert(_, _, _, _)
MergeDraftsUpsert(drafts, committed, added, accmap) ==
    IF drafts = <<>> THEN added
    ELSE LET found == Existing(Applied(committed, added), Head(drafts).external_id)
         IN IF found # {}
            THEN MergeDraftsUpsert(Tail(drafts), committed,
                     Applied(added, {NewTransaction((CHOOSE r \in found : TRUE).id,
                                                    Head(drafts), accmap)}),
                     accmap)
            ELSE MergeDraftsUpsert(Tail(drafts), committed,
                     added \cup {NewTransaction(NewId(committed \cup added \cup InFlight),
                                                Head(drafts), accmap)},
                     accmap)

\* Mutant of MergeDrafts: a draft on an account the user has not linked is
\* skipped.
RECURSIVE MergeDraftsLinkedOnly(_, _, _, _)
MergeDraftsLinkedOnly(drafts, committed, added, accmap) ==
    IF drafts = <<>> THEN added
    ELSE IF Existing(Applied(committed, added), Head(drafts).external_id) # {}
            \/ Head(drafts).plaid_account_id \notin DOMAIN accmap
         THEN MergeDraftsLinkedOnly(Tail(drafts), committed, added, accmap)
         ELSE MergeDraftsLinkedOnly(Tail(drafts), committed,
                     added \cup {NewTransaction(NewId(committed \cup added \cup InFlight),
                                                Head(drafts), accmap)},
                     accmap)

\* Mutant of MergeDrafts: a session without autoflush, whose checks see
\* the committed rows only.
RECURSIVE MergeDraftsNoAutoflush(_, _, _, _)
MergeDraftsNoAutoflush(drafts, committed, added, accmap) ==
    IF drafts = <<>> THEN added
    ELSE IF Existing(committed, Head(drafts).external_id) # {}
         THEN MergeDraftsNoAutoflush(Tail(drafts), committed, added, accmap)
         ELSE MergeDraftsNoAutoflush(Tail(drafts), committed,
                     added \cup {NewTransaction(NewId(committed \cup added \cup InFlight),
                                                Head(drafts), accmap)},
                     accmap)

\* for txn_data in transactions_data: skip when a row with the external id
\* exists, else db.add(transaction).  The result is the set of rows the
\* session has written; each select autoflushes the rows added so far, so
\* they are visible to the next check.                         plaid.py:217-240
RECURSIVE MergeDrafts(_, _, _, _)
MergeDrafts(drafts, committed, added, accmap) ==
    IF drafts = <<>> THEN added
    ELSE IF Existing(Applied(committed, added), Head(drafts).external_id) # {}
         THEN MergeDrafts(Tail(drafts), committed, added, accmap)
         ELSE MergeDrafts(Tail(drafts), committed,
                          added \cup {NewTransaction(NewId(committed \cup added \cup InFlight),
                                                     Head(drafts), accmap)},
                          accmap)

\* Mutant of TouchedAccounts: one account of the map is stamped.
TouchedAccountsFirst(accmap) ==
    IF DOMAIN accmap = {} THEN {}
    ELSE {accmap[CHOOSE k \in DOMAIN accmap : TRUE]}

\* for account_id in accounts.values(): account.last_sync_timestamp =
\* datetime.now()                                              plaid.py:243-248
TouchedAccounts(accmap) == {accmap[k] : k \in DOMAIN accmap}

\* Mutant of UniqueViolation: the column carries no unique index.
UniqueViolationNever(committed, written) == FALSE

\* UNIQUE(transactions.external_id)                            transaction.py:14-16
UniqueViolation(committed, written) ==
    \E r \in written : \E q \in Applied(committed, written) :
        q.id # r.id /\ q.external_id = r.external_id

(***************************************************************************)
(* The aggregation provider as the routes see it.  A public token          *)
(* exchanges into an access token, an item id and the account descriptors  *)
(* of that item; each user links their own institution.                    *)
(***************************************************************************)
Link ==
    {[user |-> "u1", public_token |-> "pt1", access_token |-> "at1",
      item_id |-> "it1", accounts |-> <<"pa1", "pa3">>],
     [user |-> "u2", public_token |-> "pt2", access_token |-> "at2",
      item_id |-> "it2", accounts |-> <<"pa2">>]}

\* The transactions the provider may serve in the pipeline: two versions
\* of the record with id 1 (on different accounts, with different
\* content) and a record on an account nobody has linked.
Txn1a ==
    [transaction_id |-> 1, account_id |-> "pa1",
     amount |-> [repr |-> "float", val |-> 12], date |-> Day0 - 3,
     merchant_name |-> "Cafe", name |-> "CAFE 123",
     category |-> <<"Food and Drink", "Coffee">>, pending |-> FALSE]
Txn1b ==
    [transaction_id |-> 1, account_id |-> "pa2",
     amount |-> [repr |-> "int", val |-> 99], date |-> Day0 - 2,
     merchant_name |-> NoneStr, name |-> "Coffee shop",
     category |-> <<>>, pending |-> TRUE]
Txn2 ==
    [transaction_id |-> 2, account_id |-> "paX",
     amount |-> [repr |-> "float", val |-> -5], date |-> Day0 - 1,
     merchant_name |-> "", name |-> "Refund",
     category |-> <<"Transfer">>, pending |-> FALSE]

SyncPages == {<<>>, <<Txn1a>>, <<Txn1b>>, <<Txn2, Txn1a>>}
SyncTotals == {0, 2}
SyncResponses ==
    {[transactions |-> pg, total_transactions |-> T] : pg \in SyncPages, T \in SyncTotals}

MaxSyncPages == 2       \* page requests one sync of the pipeline may issue

(***************************************************************************)
(* HTTP responses, as far as the model reads them.                         *)
(***************************************************************************)
Reply(status) == [status |-> status]

\* raise HTTPException(status_code=..., detail=...)
HTTPException(status_code, detail) == [status |-> status_code, detail |-> detail]

\* ExchangeTokenResponse(success=True, item_id=item_id,
\* accounts_synced=len(accounts_data))                         plaid.py:122-124
ExchangeTokenResponse(item_id, accounts_synced) ==
    [status |-> 200, success |-> TRUE, item_id |-> item_id,
     accounts_synced |-> accounts_synced]

\* SyncTransactionsResponse(success=True, transactions_synced=0,
\* message="Transaction sync started in background")           plaid.py:173-177
SyncTransactionsResponse ==
    [status |-> 200, success |-> TRUE, transactions_synced |-> 0,
     message |-> "Transaction sync started in background"]

\* datetime.fromisoformat(s): the instant a well-formed string denotes;
\* any other string raises ValueError.                         plaid.py:158-161
IsoFormat ==
    [s \in {"2024-01-01", "2024-01-31T12:00:00", "2024-02-12"} |->
        IF s = "2024-01-01" THEN Days(Day0 - 45)
        ELSE IF s = "2024-02-12" THEN Days(Day0 - 3)
        ELSE Days(Day0 - 15) + (TicksPerDay \div 2)]
WellFormed(s) == s \in DOMAIN IsoFormat

\* `if request.start_date:` -- None and "" are not parsed.     plaid.py:156-161
Given(s) == s # NoneStr /\ s # ""
ParseDate(s) == IF Given(s) THEN IsoFormat[s] ELSE NoneDT

\* Mutant of Scheduled: the route schedules nothing.
ScheduledNever(item_id, user_id, sd, ed) == IdleTask

\* background_tasks.add_task(sync_transactions_background, item_id,
\* user_id, start_date, end_date, db)                          plaid.py:118-120, 164-171
Scheduled(item_id, user_id, sd, ed) ==
    [IdleTask EXCEPT !.pc = "scheduled", !.item_id = item_id, !.user_id = user_id,
                     !.arg_start = sd, !.arg_end = ed]

\* The routes of the model run one after another: a route is served when
\* no sync is scheduled or running.
AtRest(t) == task[t].pc \in {"idle", "done"}

\* An Account row as the routes write and read it.  The owner column
\* user_id is passed at plaid.py:106 and filtered on at plaid.py:213 and in
\* analytics.py; models/account.py does not declare it, and models/base.py,
\* whose Base and TimestampMixin the class inherits, is not part of the
\* sources: the column is taken as the specification describes it (an
\* Account is owned by one user).
AccountRow(id, user_id, plaid_account_id, last_sync_timestamp) ==
    [id |-> id, user_id |-> user_id, plaid_account_id |-> plaid_account_id,
     last_sync_timestamp |-> last_sync_timestamp]

\* Mutant of ExchangePublicToken: the sync is scheduled as soon as the item
\* is committed, before the accounts are listed.
ExchangePublicTokenSchedulesEarly(t, l, outcome) ==
    /\ AtRest(t)
    /\ LET item == [user_id |-> l.user, access_token |-> l.access_token,
                    item_id |-> l.item_id]
           ids == [i \in 1..Len(l.accounts) |-> NewId(accounts) + i - 1]
           accs == {AccountRow(ids[i], l.user, l.accounts[i], NoneDT) :
                        i \in 1..Len(l.accounts)}
       IN IF outcome = "exchange_raises"
             \/ \E p \in plaid_items : p.item_id = l.item_id
          THEN \* the provider call raises, or UNIQUE(plaid_items.item_id)
               \* fails the first commit
               /\ response' = HTTPException(500, IF outcome = "exchange_raises"
                                                 THEN "ApiException"
                                                 ELSE "IntegrityError")
               /\ task' = [task EXCEPT ![t] = IdleTask]
               /\ UNCHANGED <<plaid_items, accounts>>
          ELSE /\ plaid_items' = plaid_items \cup {item}
               /\ IF outcome = "accounts_raise"
                     \/ \E a \in accounts : \E b \in accs :
                            a.plaid_account_id = b.plaid_account_id
                  THEN \* get_accounts raises, or UNIQUE(accounts.
                       \* plaid_account_id) fails the second commit
                       /\ response' = HTTPException(500, IF outcome = "accounts_raise"
                                                         THEN "ApiException"
                                                         ELSE "IntegrityError")
                       /\ task' = [task EXCEPT ![t] =
                                     Scheduled(l.item_id, l.user, NoneDT, NoneDT)]
                       /\ UNCHANGED accounts
                  ELSE /\ accounts' = accounts \cup accs
                       /\ task' = [task EXCEPT ![t] =
                                     Scheduled(l.item_id, l.user, NoneDT, NoneDT)]
                       /\ response' = ExchangeTokenResponse(l.item_id, Len(l.accounts))
    /\ UNCHANGED <<transactions, now, users, ai_insights>>

\* POST /api/plaid/exchange-public-token                       plaid.py:71-128
ExchangePublicToken(t, l, outcome) ==
    /\ AtRest(t)
    /\ LET item == [user_id |-> l.user, access_token |-> l.access_token,
                    item_id |-> l.item_id]
           ids == [i \in 1..Len(l.accounts) |-> NewId(accounts) + i - 1]
           accs == {AccountRow(ids[i], l.user, l.accounts[i], NoneDT) :
                        i \in 1..Len(l.accounts)}
       IN IF outcome = "exchange_raises"
             \/ \E p \in plaid_items : p.item_id = l.item_id
          THEN \* the provider call raises, or UNIQUE(plaid_items.item_id)
               \* fails the first commit
               /\ response' = HTTPException(500, IF outcome = "exchange_raises"
                                                 THEN "ApiException"
                                                 ELSE "IntegrityError")
               /\ task' = [task EXCEPT ![t] = IdleTask]
               /\ UNCHANGED <<plaid_items, accounts>>
          ELSE /\ plaid_items' = plaid_items \cup {item}
               /\ IF outcome = "accounts_raise"
                     \/ \E a \in accounts : \E b \in accs :
                            a.plaid_account_id = b.plaid_account_id
                  THEN \* get_accounts raises, or UNIQUE(accounts.
                       \* plaid_account_id) fails the second commit
                       /\ response' = HTTPException(500, IF outcome = "accounts_raise"
                                                         THEN "ApiException"
                                                         ELSE "IntegrityError")
                       /\ task' = [task EXCEPT ![t] = IdleTask]
                       /\ UNCHANGED accounts
                  ELSE /\ accounts' = accounts \cup accs
                       /\ task' = [task EXCEPT ![t] =
                                     Scheduled(l.item_id, l.user, NoneDT, NoneDT)]
                       /\ response' = ExchangeTokenResponse(l.item_id, Len(l.accounts))
    /\ UNCHANGED <<transactions, now, users, ai_insights>>

\* POST /api/plaid/sync-transactions                           plaid.py:131-183
SyncTrigger(t, u, item_id, sd, ed) ==
    /\ AtRest(t)
    /\ IF ItemsOf(item_id, u) = {}
       THEN /\ response' = HTTPException(404, "Plaid item not found")
            /\ task' = [task EXCEPT ![t] = IdleTask]
       ELSE IF (Given(sd) /\ ~WellFormed(sd)) \/ (Given(ed) /\ ~WellFormed(ed))
       THEN \* ValueError, caught by `except Exception`          plaid.py:181-183
            /\ response' = HTTPException(500, "Invalid isoformat string")
            /\ task' = [task EXCEPT ![t] = IdleTask]
       ELSE /\ response' = SyncTransactionsResponse
            /\ task' = [task EXCEPT ![t] =
                          Scheduled(item_id, u, ParseDate(sd), ParseDate(ed))]
    /\ UNCHANGED <<plaid_items, accounts, transactions, now, users, ai_insights>>

\* sync_transactions_background up to the first page request: the item
\* lookup (scalar_one raises when there is no row) and the entry of the
\* service call.                                               plaid.py:194-210
SyncStart(t) ==
    /\ task[t].pc = "scheduled"
    /\ LET items == ItemsOf(task[t].item_id, task[t].user_id)
       IN IF items = {}
          THEN task' = [task EXCEPT ![t] = [@ EXCEPT !.pc = "raised",
                                                     !.error = "NoResultFound"]]
          ELSE task' = [task EXCEPT ![t] =
                   [ServiceEntry(@, (CHOOSE p \in items : TRUE).access_token,
                                 @.arg_start, @.arg_end)
                        EXCEPT !.before_tx = transactions, !.before_acc = accounts]]
    /\ UNCHANGED <<plaid_items, accounts, transactions, now, response, users, ai_insights>>

\* The account map, the deduplicating inserts and the timestamp updates,
\* all in the task's session.                                  plaid.py:212-248
Merge(t) ==
    /\ task[t].pc = "returned"
    /\ LET accmap == AccountMap(task[t].user_id)
           added == MergeDrafts(task[t].all_transactions, transactions, {}, accmap)
       IN task' = [task EXCEPT ![t] =
                     [@ EXCEPT !.pc = "merged",
                               !.requests = <<>>, !.responses = <<>>,
                               !.session_new = added,
                               !.new_count = Cardinality(added),
                               !.session_ts = [id \in TouchedAccounts(accmap) |-> now]]]
    /\ UNCHANGED <<plaid_items, accounts, transactions, now, response, users, ai_insights>>

\* Mutant of Commit: the sync writes its count into the acknowledgment.
CommitReportsCount(t) ==
    /\ task[t].pc = "merged"
    /\ transactions' = Applied(transactions, task[t].session_new)
    /\ accounts' = {IF a.id \in DOMAIN task[t].session_ts
                    THEN [a EXCEPT !.last_sync_timestamp = task[t].session_ts[a.id]]
                    ELSE a : a \in accounts}
    /\ task' = [task EXCEPT ![t] = [@ EXCEPT !.pc = "done", !.session_new = {},
                                             !.session_ts = <<>>]]
    /\ response' = IF "transactions_synced" \in DOMAIN response
                   THEN [response EXCEPT !.transactions_synced = task[t].new_count]
                   ELSE response
    /\ UNCHANGED <<plaid_items, now, users, ai_insights>>

\* await db.commit(): the session's writes reach the tables, unless the
\* unique index on external_id refuses them.                   plaid.py:250-251
Commit(t) ==
    /\ task[t].pc = "merged"
    /\ IF UniqueViolation(transactions, task[t].session_new)
       THEN /\ task' = [task EXCEPT ![t] = [@ EXCEPT !.pc = "raised",
                                                     !.error = "IntegrityError"]]
            /\ UNCHANGED <<transactions, accounts>>
       ELSE /\ transactions' = Applied(transactions, task[t].session_new)
            /\ accounts' = {IF a.id \in DOMAIN task[t].session_ts
                            THEN [a EXCEPT !.last_sync_timestamp = task[t].session_ts[a.id]]
                            ELSE a : a \in accounts}
            /\ task' = [task EXCEPT ![t] = [@ EXCEPT !.pc = "done",
                                                     !.session_new = {},
                                                     !.session_ts = <<>>]]
    /\ UNCHANGED <<plaid_items, now, response, users, ai_insights>>

\* except Exception: logger.error(...); await db.rollback()    plaid.py:253-255
Rollback(t) ==
    /\ task[t].pc = "raised"
    /\ task' = [task EXCEPT ![t] = [@ EXCEPT !.pc = "done",
                                             !.session_new = {},
                                             !.session_ts = <<>>]]
    /\ UNCHANGED <<plaid_items, accounts, transactions, now, response, users, ai_insights>>

\* What one call of the configured LLM backend does: it answers with a
\* text, or it raises (transport error, auth failure, rate limit).
LlmText(content) == [kind |-> "content", content |-> content]
LlmRaises == [kind |-> "raises"]

\* str.strip() on the answers the model's LLM gives.
Strip == [s \in {"Dining\n", " Groceries"} |->
            IF s = "Dining\n" THEN "Dining" ELSE "Groceries"]

\* OllamaProvider.categorize_transaction and OpenAIProvider.
\* categorize_transaction: the stripped answer, and "Other" when the call
\* raises.                  ollama_provider.py:65-73, openai_provider.py:67-77
categorize_transaction(llm) ==
    IF llm.kind = "raises" THEN "Other" ELSE Strip[llm.content]

\* POST /api/ai/categorize-transaction/{transaction_id}: the provider's
\* label becomes the row's ai_category; get_llm_provider raising (a
\* configuration without provider) answers 500.                ai.py:164-204
CategorizeLlm == {LlmText("Dining\n")}
CategorizedIds == {1, 3}
CategorizeTransaction(t, transaction_id, llm, configured) ==
    /\ AtRest(t)
    /\ task' = [task EXCEPT ![t] = IdleTask]
    /\ IF \A r \in transactions : r.id # transaction_id
       THEN /\ response' = HTTPException(404, "Transaction not found")
            /\ UNCHANGED transactions
       ELSE IF ~configured
       THEN /\ response' = HTTPException(500, "ValueError")
            /\ UNCHANGED transactions
       ELSE /\ transactions' = {IF r.id = transaction_id
                                THEN [r EXCEPT !.ai_category = categorize_transaction(llm)]
                                ELSE r : r \in transactions}
            /\ response' = [status |-> 200, transaction_id |-> transaction_id,
                            ai_category |-> categorize_transaction(llm)]
    /\ UNCHANGED <<plaid_items, accounts, now, users, ai_insights>>

(***************************************************************************)
(* Spec: the routes and the background sync, served one after another.     *)
(***************************************************************************)
\* The pipeline reads the clock twice: at the entry of the service call
\* (plaid_service.py:147) and in the timestamp loop (plaid.py:247).  Spec
\* lets the clock advance just before either reading.
ClockRead(t) == task[t].pc \in {"scheduled", "returned"}

ItemIds == {"it1", "it2"}
TriggerDates ==
    {<<NoneStr, NoneStr>>, <<"2024-01-01", "2024-01-31T12:00:00">>,
     <<"", "not-a-date">>}

Init ==
    /\ plaid_items = {}
    /\ accounts = {}
    /\ transactions = {}
    /\ now = Clock0
    /\ task = [t \in Tasks |-> IdleTask]
    /\ response = Reply(0)
    /\ users = {}
    /\ ai_insights = {}

Next ==
    \/ \E l \in Link, o \in {"ok", "exchange_raises", "accounts_raise"} :
            ExchangePublicToken(1, l, o)
    \/ \E u \in Users, i \in ItemIds, d \in TriggerDates :
            SyncTrigger(1, u, i, d[1], d[2])
    \/ SyncStart(1)
    \/ \E resp \in SyncResponses :
            Allowed(task[1], resp, MaxSyncPages) /\ FetchPage(1, resp)
    \/ Len(task[1].requests) < MaxSyncPages /\ ProviderError(1)
    \/ Merge(1)
    \/ Commit(1)
    \/ Rollback(1)
    \/ \E id \in CategorizedIds, llm \in CategorizeLlm, configured \in BOOLEAN :
            CategorizeTransaction(1, id, llm, configured)
    \/ ClockRead(1) /\ Tick

Spec == Init /\ [][Next]_vars

(***************************************************************************)
(* Properties of the paginated fetch, checked under SpecPage.              *)
(***************************************************************************)
RECURSIVE Received(_, _)
\* The number of records in the first k responses of a call.
Received(responses, k) ==
    IF k = 0 THEN 0 ELSE Received(responses, k - 1) + responses[k].n

\* The responses a call has had are those of a provider that holds T
\* records: each reports total T and carries the full page at its offset.
FullPages(tk, T) ==
    \A k \in 1..Len(tk.responses) :
        /\ tk.responses[k].total = T
        /\ tk.responses[k].n = Min(batch_size, Max(T - tk.requests[k].offset, 0))

PagesFor(T) == Max(1, (T + batch_size - 1) \div batch_size)

\* C4: against a provider that reports a constant total T and serves full
\* pages, a call issues exactly max(1, ceil(T/500)) requests and returns
\* the drafts of the provider's T records, each once, in provider order.
C4_PaginationComplete ==
    \A t \in Tasks : \A T \in PageTotals :
        FullPages(task[t], T) =>
            /\ Len(task[t].requests) <= PagesFor(T)
            /\ (task[t].pc = "fetch") => Len(task[t].requests) < PagesFor(T)
            /\ (task[t].pc = "returned") =>
                   /\ Len(task[t].requests) = PagesFor(T)
                   /\ task[t].all_transactions = Drafts(Slice(0, T))

\* A call against a provider of 750 records has returned after two pages.
C4_Witness ==
    \E t \in Tasks :
        /\ task[t].pc = "returned"
        /\ FullPages(task[t], 750)
        /\ Len(task[t].requests) = 2
        /\ Len(task[t].all_transactions) = 750

\* C5: the first request of a call has offset 0, the N-th has the number
\* of records received before it as its offset, and every request of the
\* call has count 500 and the start and end date of the first.
C5_RequestOffsets ==
    \A t \in Tasks : \A k \in 1..Len(task[t].requests) :
        /\ task[t].requests[k].offset = Received(task[t].responses, k - 1)
        /\ task[t].requests[k].count = batch_size
        /\ task[t].requests[k].start_date = task[t].requests[1].start_date
        /\ task[t].requests[k].end_date = task[t].requests[1].end_date

\* A third request follows a full page and a page of one record.
C5_Witness ==
    \E t \in Tasks :
        /\ Len(task[t].requests) = 3
        /\ task[t].responses[1].n = batch_size
        /\ task[t].responses[2].n = 1
        /\ task[t].requests[3].offset = batch_size + 1

C7_DefaultWindow ==
    \A t \in Tasks :
        (task[t].arg_start = NoneDT /\ task[t].arg_end = NoneDT) =>
            \A k \in 1..Len(task[t].requests) :
                LET r == task[t].requests[k]
                IN /\ r.end_date = DateOf(task[t].called_at)
                   /\ r.start_date = r.end_date - 730
                   /\ r.end_date - r.start_date >= 720
                   /\ r.end_date - r.start_date <= 740

\* A call without dates has issued a second request after the clock moved.
C7_Witness ==
    \E t \in Tasks :
        /\ task[t].arg_start = NoneDT /\ task[t].arg_end = NoneDT
        /\ Len(task[t].requests) = 2
        /\ now > task[t].called_at

(***************************************************************************)
(* SpecConc: two background syncs whose steps interleave, each in its own  *)
(* session, over a database in which both users have linked their          *)
(* institution and a first sync has found nothing.                         *)
(***************************************************************************)
\* The provider of SpecConc holds at most one page for a window.
ConcResponses ==
    {[transactions |-> pg, total_transactions |-> Len(pg)] : pg \in SyncPages}

LinkedItems ==
    {[user_id |-> l.user, access_token |-> l.access_token, item_id |-> l.item_id] :
        l \in Link}
LinkedAccounts ==
    {AccountRow(1, "u1", "pa1", Clock0), AccountRow(2, "u1", "pa3", Clock0),
     AccountRow(3, "u2", "pa2", Clock0)}

InitConc ==
    /\ plaid_items = LinkedItems
    /\ accounts = LinkedAccounts
    /\ transactions = {}
    /\ now = Clock0
    /\ task = [t \in Tasks |-> IdleTask]
    /\ response = Reply(0)
    /\ users = {}
    /\ ai_insights = {}

NextConc ==
    \E t \in Tasks :
        \/ \E u \in Users, i \in ItemIds : SyncTrigger(t, u, i, NoneStr, NoneStr)
        \/ SyncStart(t)
        \/ \E resp \in ConcResponses : FetchPage(t, resp)
        \/ ProviderError(t)
        \/ Merge(t)
        \/ Commit(t)
        \/ Rollback(t)

SpecConc == InitConc /\ [][NextConc]_vars

(***************************************************************************)
(* SpecRoutes: the routes of plaid.py and the background sync served one   *)
(* after another, from an empty store, against a provider that answers a   *)
(* sync with one page.                                                     *)
(***************************************************************************)
NextRoutes ==
    \/ \E l \in Link, o \in {"ok", "exchange_raises", "accounts_raise"} :
            ExchangePublicToken(1, l, o)
    \/ \E u \in Users, i \in ItemIds, d \in TriggerDates :
            SyncTrigger(1, u, i, d[1], d[2])
    \/ SyncStart(1)
    \/ \E resp \in ConcResponses : FetchPage(1, resp)
    \/ ProviderError(1)
    \/ Merge(1)
    \/ Commit(1)
    \/ Rollback(1)

SpecRoutes == Init /\ [][NextRoutes]_vars

(***************************************************************************)
(* Properties of the stored transactions.                                  *)
(***************************************************************************)
ExternalIds(rows) == {r.external_id : r \in rows}

\* The first draft of a fetch that carries the external id of drafts[i].
FirstOf(drafts, i) ==
    drafts[CHOOSE j \in 1..i :
              /\ drafts[j].external_id = drafts[i].external_id
              /\ \A k \in 1..(j - 1) : drafts[k].external_id # drafts[i].external_id]

Succeeded(tk) == tk.pc = "done" /\ tk.error = "none"

\* C1: in every reachable state, whatever syncs have run, completed,
\* failed or are under way, no two stored transactions share an external
\* identifier.
C1_ExternalIdUnique ==
    \A r \in transactions : \A q \in transactions :
        r.external_id = q.external_id => r = q

\* Two syncs fetched the same external id before either committed: one
\* has stored it, the other was refused by the unique index.
C1_Witness ==
    \E t \in Tasks : \E o \in Tasks :
        /\ Succeeded(task[t])
        /\ task[t].new_count = 1
        /\ task[o].pc = "raised"
        /\ task[o].error = "IntegrityError"
        /\ ExternalIds(task[o].session_new) \subseteq ExternalIds(transactions)
        /\ task[o].session_new # {}

(***************************************************************************)
(* Properties of one background sync, checked under Spec.  before_tx and   *)
(* before_acc are the tables as the sync found them.                       *)
(***************************************************************************)
\* The rows a sync of the same drafts, run next for the same user, would add.
SecondRun(tk) ==
    MergeDrafts(tk.all_transactions, transactions, {}, AccountMap(tk.user_id))

\* C2: once a sync has succeeded, every external id it fetched is stored,
\* so a second sync with the same provider output inserts nothing and
\* leaves the stored set and its count as they are; and a sync all of
\* whose drafts are already stored inserts zero records.
C2_IdempotentMerge ==
    \A t \in Tasks :
        /\ Succeeded(task[t]) =>
              /\ \A i \in 1..Len(task[t].all_transactions) :
                     task[t].all_transactions[i].external_id \in ExternalIds(transactions)
              /\ SecondRun(task[t]) = {}
              /\ Applied(transactions, SecondRun(task[t])) = transactions
        /\ (/\ task[t].pc \in {"merged", "done"}
            /\ task[t].error = "none"
            /\ \A i \in 1..Len(task[t].all_transactions) :
                   task[t].all_transactions[i].external_id \in ExternalIds(task[t].before_tx))
           => /\ task[t].session_new = {}
              /\ task[t].new_count = 0
              /\ task[t].pc = "done" => transactions = task[t].before_tx

\* A sync has succeeded whose fetched drafts were all stored before it:
\* it inserted nothing.
C2_Witness ==
    \E t \in Tasks :
        /\ Succeeded(task[t])
        /\ Len(task[t].all_transactions) >= 1
        /\ \A i \in 1..Len(task[t].all_transactions) :
               task[t].all_transactions[i].external_id \in ExternalIds(task[t].before_tx)
        /\ task[t].new_count = 0
        /\ transactions = task[t].before_tx

\* C3: when a page request of a sync fails, at the first page or after
\* pages were fetched, the stored transactions and the accounts (their
\* last-sync timestamps included) stay, until the sync has ended, exactly
\* as the sync found them.
C3_FailedSyncLeavesNoTrace ==
    \A t \in Tasks :
        task[t].error = "provider" =>
            /\ transactions = task[t].before_tx
            /\ accounts = task[t].before_acc

\* A sync has ended whose second page request failed after a first page
\* with a record that is not stored.
C3_Witness ==
    \E t \in Tasks :
        /\ task[t].pc = "done"
        /\ task[t].error = "provider"
        /\ Len(task[t].all_transactions) >= 1
        /\ task[t].all_transactions[1].external_id \notin ExternalIds(transactions)
        /\ \E a \in accounts : a.user_id = task[t].user_id

\* C8: from its start to its end a sync leaves every row it found stored
\* as it is, in every column, whatever the drafts it fetched contain.
C8_StoredRowsUnchanged ==
    \A t \in Tasks :
        task[t].pc \in {"fetch", "returned", "merged", "raised", "done"} =>
            /\ task[t].before_tx \subseteq transactions
            /\ task[t].before_tx \subseteq Applied(transactions, task[t].session_new)

\* A sync has succeeded that fetched a draft for a stored, AI-categorized
\* external id with another amount, merchant and account.
C8_Witness ==
    \E t \in Tasks :
        /\ Succeeded(task[t])
        /\ \E i \in 1..Len(task[t].all_transactions) : \E r \in task[t].before_tx :
              LET d == task[t].all_transactions[i]
              IN /\ r.external_id = d.external_id
                 /\ r.ai_category # NoneStr
                 /\ r.amount # d.amount
                 /\ r.merchant_name # d.merchant_name
                 /\ r.account_id # MapGet(AccountMap(task[t].user_id), d.plaid_account_id)
                 /\ r \in transactions

\* The provider account ids of the accounts of a user.
LinkedIds(user_id) == {a.plaid_account_id : a \in AccountsOfUser(user_id)}

\* The row a successful sync has stored for a draft.
StoredFor(tk, d) ==
    {r \in transactions \ tk.before_tx :
        /\ r.external_id = d.external_id
        /\ r.amount = d.amount
        /\ r.date = d.date
        /\ r.merchant_name = d.merchant_name
        /\ r.description = d.description
        /\ r.category = d.category
        /\ r.source = "plaid"}

\* C9: after a successful sync, every fetched draft whose external id was
\* not stored before has a row (for the first draft of that id): with a
\* null account reference when the draft's provider account id is that of
\* none of the syncing user's accounts, and with the local key of the
\* user's account of that provider id otherwise.
C9_UnmatchedAccountInserted ==
    \A t \in Tasks :
        Succeeded(task[t]) =>
            \A i \in 1..Len(task[t].all_transactions) :
                LET d == FirstOf(task[t].all_transactions, i)
                IN d.external_id \notin ExternalIds(task[t].before_tx) =>
                      \E r \in StoredFor(task[t], d) :
                          IF d.plaid_account_id \in LinkedIds(task[t].user_id)
                          THEN \E a \in AccountsOfUser(task[t].user_id) :
                                  /\ a.plaid_account_id = d.plaid_account_id
                                  /\ r.account_id = a.id
                          ELSE r.account_id = NoneId

\* A sync has stored two drafts: one on an account nobody has linked, with
\* a null reference, and one on an account of the user.
C9_Witness ==
    \E t \in Tasks :
        /\ Succeeded(task[t])
        /\ task[t].new_count = 2
        /\ \E r \in transactions \ task[t].before_tx : r.account_id = NoneId
        /\ \E r \in transactions \ task[t].before_tx : r.account_id # NoneId
        /\ \E d \in {task[t].all_transactions[i] : i \in 1..Len(task[t].all_transactions)} :
              d.plaid_account_id \notin {a.plaid_account_id : a \in accounts}

\* C10: after a successful sync of a user, every account of that user
\* carries a last-sync timestamp that is not null and was taken during
\* this sync, also when the account got no new row; and a sync whose
\* fetch returned no transaction ends without error, with zero new rows.
C10_AllAccountsStamped ==
    \A t \in Tasks :
        /\ Succeeded(task[t]) =>
              \A a \in AccountsOfUser(task[t].user_id) :
                  /\ a.last_sync_timestamp # NoneDT
                  /\ a.last_sync_timestamp >= task[t].called_at
                  /\ a.last_sync_timestamp <= now
        /\ (/\ task[t].pc = "done"
            /\ ~task[t].has_more
            /\ task[t].all_transactions = <<>>)
           => /\ task[t].error = "none"
              /\ task[t].new_count = 0
              /\ transactions = task[t].before_tx

\* A sync of a user with two accounts, both stamped by an earlier sync,
\* has fetched nothing at a later time and succeeded.
C10_Witness ==
    \E t \in Tasks :
        /\ Succeeded(task[t])
        /\ task[t].all_transactions = <<>>
        /\ task[t].new_count = 0
        /\ Cardinality(AccountsOfUser(task[t].user_id)) = 2
        /\ \A a \in task[t].before_acc :
              a.user_id = task[t].user_id =>
                  /\ a.last_sync_timestamp # NoneDT
                  /\ a.last_sync_timestamp < task[t].called_at
        /\ \A a \in AccountsOfUser(task[t].user_id) :
              a.last_sync_timestamp >= task[t].called_at

(***************************************************************************)
(* Properties of the routes of plaid.py, checked under Spec and SpecRoutes. *)
(***************************************************************************)
\* The user owns a linked item of that id.
Owns(u, item_id) == \E p \in plaid_items : p.item_id = item_id /\ p.user_id = u

\* C11: a sync trigger for an item id that is not stored, or is stored for
\* another user, answers 404; it schedules no background sync (so no
\* provider call follows) and leaves every table as it is.
C11_ForeignItemNotFound ==
    [][\A u \in Users, i \in ItemIds, d \in TriggerDates :
          (~Owns(u, i) /\ SyncTrigger(1, u, i, d[1], d[2])) =>
              /\ response'.status = 404
              /\ task'[1].pc = "idle"
              /\ task'[1].requests = <<>>
              /\ UNCHANGED <<plaid_items, accounts, transactions>>]_vars

\* Both items are linked, so every item id of a trigger exists: the 404
\* of the trigger answers a user asking for the other user's item.
C11_Witness ==
    /\ response = HTTPException(404, "Plaid item not found")
    /\ {p.item_id : p \in plaid_items} = ItemIds
    /\ transactions # {}
    /\ task[1].pc = "idle"

\* A background sync is scheduled or running in the task.
Syncing(tk) == tk.pc \in {"scheduled", "fetch", "returned", "merged", "raised"}

\* The access credentials of the linked items of a user.
CredentialsOf(u) == {p.access_token : p \in {q \in plaid_items : q.user_id = u}}

\* The accounts without their last-sync timestamps.
Unstamped(accs) == {[a EXCEPT !.last_sync_timestamp = NoneDT] : a \in accs}

\* C13: every step of a sync run for user U leaves the linked items as
\* they are, sends only a credential of an item of U to the provider,
\* changes no account but the last-sync timestamp of accounts of U,
\* keeps every stored transaction as it is, and adds only transactions
\* whose account reference is null or an account of U.
C13_SyncIsolation ==
    [][Syncing(task[1]) =>
          LET U == task[1].user_id
          IN /\ plaid_items' = plaid_items
             /\ \A k \in 1..Len(task'[1].requests) :
                    task'[1].requests[k].access_token \in CredentialsOf(U)
             /\ \A a \in accounts : a.user_id # U => a \in accounts'
             /\ Unstamped(accounts') = Unstamped(accounts)
             /\ transactions \subseteq transactions'
             /\ \A r \in transactions' \ transactions :
                    \/ r.account_id = NoneId
                    \/ \E a \in accounts : a.user_id = U /\ a.id = r.account_id]_vars

\* A sync of u1 has stored, with a null account reference, a draft on the
\* provider account that u2 has linked; the account of u2 is as it was.
C13_Witness ==
    /\ Succeeded(task[1])
    /\ task[1].user_id = "u1"
    /\ \E a \in accounts :
          /\ a.user_id = "u2"
          /\ a \in task[1].before_acc
          /\ \E i \in 1..Len(task[1].all_transactions) :
                task[1].all_transactions[i].plaid_account_id = a.plaid_account_id
    /\ \E r \in transactions \ task[1].before_tx : r.account_id = NoneId
    /\ \E a \in accounts : a.user_id = "u1" /\ a \notin task[1].before_acc

\* The acknowledgment of the sync trigger.
Acknowledgment(r) == "message" \in DOMAIN r

Malformed(s) == Given(s) /\ s \notin {"2024-01-01", "2024-01-31T12:00:00"}

\* The status codes of the generic failure response (UpstreamFailure) and
\* of a validation error.
UpstreamFailureStatus == {500}
ValidationStatus == {400, 422}

\* C15: a sync trigger of an owned item with a malformed date string is
\* answered with a validation error, not with the generic failure
\* response, and schedules no background sync.
C15_MalformedDateIsValidation ==
    [][\A u \in Users, i \in ItemIds, d \in TriggerDates :
          (/\ Owns(u, i)
           /\ Malformed(d[1]) \/ Malformed(d[2])
           /\ SyncTrigger(1, u, i, d[1], d[2])) =>
              /\ response'.status \in ValidationStatus
              /\ response'.status \notin UpstreamFailureStatus
              /\ task'[1].pc = "idle"]_vars

\* The trigger with a malformed date has answered: with status 500, like
\* an upstream failure, and nothing is scheduled.
C15_Witness ==
    /\ response = HTTPException(500, "Invalid isoformat string")
    /\ task[1].pc = "idle"
    /\ plaid_items # {}

\* C16: a token exchange that answers success has stored exactly one new
\* linked item, owned by the requesting user, and one new account of that
\* user per account descriptor of the provider; it reports the item id and
\* that number of accounts, and has scheduled one background sync of that
\* item for that user with no dates.  An exchange whose provider call
\* fails stores no linked item, and no failed exchange schedules a sync.
C16_ExchangeStoresAndSchedules ==
    [][\A l \in Link, o \in {"ok", "exchange_raises", "accounts_raise"} :
          ExchangePublicToken(1, l, o) =>
              IF response'.status = 200
              THEN /\ plaid_items' \ plaid_items =
                          {[user_id |-> l.user, access_token |-> l.access_token,
                            item_id |-> l.item_id]}
                   /\ plaid_items \subseteq plaid_items'
                   /\ accounts \subseteq accounts'
                   /\ Cardinality(accounts' \ accounts) = Len(l.accounts)
                   /\ \A k \in 1..Len(l.accounts) :
                          \E a \in accounts' \ accounts :
                              /\ a.plaid_account_id = l.accounts[k]
                              /\ a.user_id = l.user
                              /\ a.last_sync_timestamp = NoneDT
                   /\ response'.success
                   /\ response'.item_id = l.item_id
                   /\ response'.accounts_synced = Len(l.accounts)
                   /\ task'[1].pc = "scheduled"
                   /\ task'[1].item_id = l.item_id
                   /\ task'[1].user_id = l.user
                   /\ task'[1].arg_start = NoneDT
                   /\ task'[1].arg_end = NoneDT
              ELSE /\ task'[1].pc = "idle"
                   /\ accounts' = accounts
                   /\ o = "exchange_raises" => plaid_items' = plaid_items]_vars

\* u1 has exchanged a token after u2: two accounts are reported and
\* stored, and the first sync of the item is scheduled.
C16_Witness ==
    /\ response = ExchangeTokenResponse("it1", 2)
    /\ task[1].pc = "scheduled"
    /\ task[1].item_id = "it1"
    /\ Cardinality({a \in accounts : a.user_id = "u1"}) = 2
    /\ Cardinality(plaid_items) = 2

(***************************************************************************)
(* The analytics reads of analytics.py.  Dates are day numbers counted     *)
(* from 1970-01-01; amounts are in cents, so that sums are exact.          *)
(***************************************************************************)
\* date.weekday(): Monday is 0, Sunday is 6 (1970-01-01 was a Thursday).
Weekday(d) == (d + 3) % 7

\* Mutant of StartOfWeek: weeks start on Sunday.
StartOfWeekSunday(d) == d - ((Weekday(d) + 1) % 7)

\* txn.date - timedelta(days=txn.date.weekday())              analytics.py:167
StartOfWeek(d) == d - Weekday(d)

\* The calendar date of a day number: year, month and day of the
\* proleptic Gregorian calendar, as datetime.date holds them.
Civil(d) ==
    LET z == d + 719468
        era == z \div 146097
        doe == z - era * 146097
        yoe == (doe - (doe \div 1460) + (doe \div 36524) - (doe \div 146096)) \div 365
        doy == doe - (365 * yoe + (yoe \div 4) - (yoe \div 100))
        mp == (5 * doy + 2) \div 153
        m == IF mp < 10 THEN mp + 3 ELSE mp - 9
    IN [year |-> yoe + era * 400 + (IF m <= 2 THEN 1 ELSE 0),
        month |-> m,
        day |-> doy - ((153 * mp + 2) \div 5) + 1]

\* str(date): "YYYY-MM-DD", held as the triple of its fields; strings of
\* this form sort as the triples do.
IsoDate(d) == <<Civil(d).year, Civil(d).month, Civil(d).day>>

\* date.strftime("%Y-%m")                                     analytics.py:170
YearMonth(d) == <<Civil(d).year, Civil(d).month>>

\* The order of the bucket keys as strings.
RECURSIVE KeyLess(_, _)
KeyLess(a, b) ==
    IF a = <<>> \/ b = <<>> THEN a = <<>> /\ b # <<>>
    ELSE IF Head(a) # Head(b) THEN Head(a) < Head(b)
    ELSE KeyLess(Tail(a), Tail(b))

\* round(x, 2) of the quotient num / den of two amounts, in hundredths:
\* the nearest hundredth, a tie going to the even one.
RoundDiv(num, den) ==
    LET n == IF den < 0 THEN -num ELSE num
        d == IF den < 0 THEN -den ELSE den
        q == n \div d
        r == n - q * d
    IN IF 2 * r < d THEN q
       ELSE IF 2 * r > d THEN q + 1
       ELSE IF q % 2 = 0 THEN q ELSE q + 1

RECURSIVE SumAmounts(_)
\* func.sum(Transaction.amount), sum(txn.amount for txn in ...)
SumAmounts(rows) ==
    IF rows = {} THEN 0
    ELSE LET r == CHOOSE x \in rows : TRUE
         IN r.amount + SumAmounts(rows \ {r})

\* Mutant of JoinOwned: an outer join that keeps the rows without account.
JoinOwnedOrUnlinked(accs, txs, u) ==
    {r \in txs : \/ r.account_id = NoneId
                 \/ \E a \in accs : a.id = r.account_id /\ a.user_id = u}

\* Mutant of JoinOwned: the join without the filter on the owner.
JoinAnyAccount(accs, txs, u) ==
    {r \in txs : \E a \in accs : a.id = r.account_id}

\* .join(Account, Transaction.account_id == Account.id)
\* .where(Account.user_id == current_user.id): the transactions on an
\* account of the user; a row with a null account reference joins with no
\* account.                  analytics.py:79-81, 141, 215-217, 275-277, 326-327
JoinOwned(accs, txs, u) ==
    {r \in txs : \E a \in accs : a.id = r.account_id /\ a.user_id = u}

\* The date strings of a read parse (or are not given).
DatesParse(sd, ed) == (Given(sd) => WellFormed(sd)) /\ (Given(ed) => WellFormed(ed))

\* if start_date: ... Transaction.date >= fromisoformat(start_date).date()
\* if end_date: ... Transaction.date <= fromisoformat(end_date).date()
\*                                                            analytics.py:86-93
InWindow(rows, sd, ed) ==
    {r \in rows :
        /\ Given(sd) => r.date >= DateOf(IsoFormat[sd])
        /\ Given(ed) => r.date <= DateOf(IsoFormat[ed])}

\* The rows a read of the user selects.
Selected(accs, txs, u, sd, ed) == InWindow(JoinOwned(accs, txs, u), sd, ed)

\* The sequences that hold each element of a set once.
Orderings(S) ==
    {f \in [1..Cardinality(S) -> S] : \A i, j \in 1..Cardinality(S) : f[i] = f[j] => i = j}

\* GET /spending-by-card: one entry per account of the user with selected
\* rows (the query groups by account, in no stated order; an account that
\* is not in the user's account map is left out).              analytics.py:72-119
SpendingByCard(accs, txs, u, sd, ed) ==
    LET rows == {r \in Selected(accs, txs, u, sd, ed) : r.account_id # NoneId}
        mine == {a.id : a \in {b \in accs : b.user_id = u}}
    IN {[account_id |-> id,
         total_spent |-> SumAmounts({r \in rows : r.account_id = id}),
         transaction_count |-> Cardinality({r \in rows : r.account_id = id})] :
            id \in {r.account_id : r \in rows} \cap mine}

\* The key of the bucket of a date.                           analytics.py:163-170
BucketKey(granularity, d) ==
    IF granularity = "daily" THEN IsoDate(d)
    ELSE IF granularity = "weekly" THEN IsoDate(StartOfWeek(d))
    ELSE YearMonth(d)

\* Mutant of SpendingOverTime: the buckets are returned latest key first.
SpendingOverTimeLatestFirst(accs, txs, u, granularity, sd, ed, account_ids) ==
    LET ids == {account_ids[i] : i \in 1..Len(account_ids)}
        rows == {r \in Selected(accs, txs, u, sd, ed) :
                    account_ids # <<>> => r.account_id \in ids}
        keys == {BucketKey(granularity, r.date) : r \in rows}
        bucket(k) == {r \in rows : BucketKey(granularity, r.date) = k}
        entries == {[date |-> k, amount |-> SumAmounts(bucket(k)),
                     transaction_count |-> Cardinality(bucket(k))] : k \in keys}
    IN CHOOSE f \in Orderings(entries) :
          \A i, j \in 1..Len(f) : i < j => KeyLess(f[j].date, f[i].date)

\* GET /spending-over-time: the buckets of the selected rows, sorted by
\* key.  account_ids is the list the comma-separated parameter splits
\* into, empty when the parameter is not given.               analytics.py:139-185
SpendingOverTime(accs, txs, u, granularity, sd, ed, account_ids) ==
    LET ids == {account_ids[i] : i \in 1..Len(account_ids)}
        rows == {r \in Selected(accs, txs, u, sd, ed) :
                    account_ids # <<>> => r.account_id \in ids}
        keys == {BucketKey(granularity, r.date) : r \in rows}
        bucket(k) == {r \in rows : BucketKey(granularity, r.date) = k}
        entries == {[date |-> k, amount |-> SumAmounts(bucket(k)),
                     transaction_count |-> Cardinality(bucket(k))] : k \in keys}
    IN CHOOSE f \in Orderings(entries) :
          \A i, j \in 1..Len(f) : i < j => KeyLess(f[i].date, f[j].date)

\* category_field = Transaction.ai_category if use_ai_category else
\* Transaction.category                                       analytics.py:206
CategoryField(r, use_ai_category) ==
    IF use_ai_category THEN r.ai_category ELSE r.category

\* round((float(amount) / total_amount * 100), 2) if total_amount > 0
\* else 0.0, in hundredths of a percent.                      analytics.py:242-244
Percentage(amount, total_amount) ==
    IF total_amount > 0 THEN RoundDiv(amount * 10000, total_amount) ELSE 0

\* The entries of GET /categories: one per category of the selected rows
\* that have one, with its share of the total over these entries.
\*                                                            analytics.py:204-248
CategoryEntries(accs, txs, u, sd, ed, use_ai_category) ==
    LET rows == {r \in Selected(accs, txs, u, sd, ed) :
                    CategoryField(r, use_ai_category) # NoneStr}
        cats == {CategoryField(r, use_ai_category) : r \in rows}
        group(c) == {r \in rows : CategoryField(r, use_ai_category) = c}
        total_amount == SumAmounts(rows)
    IN {[category |-> IF c = "" THEN "Uncategorized" ELSE c,
         amount |-> SumAmounts(group(c)),
         percentage |-> Percentage(SumAmounts(group(c)), total_amount),
         transaction_count |-> Cardinality(group(c))] : c \in cats}

\* response.sort(key=lambda x: x.amount, reverse=True): the lists a
\* stable sort can give, the query's own order being unstated.
\*                                                            analytics.py:251
CategoryBreakdown(accs, txs, u, sd, ed, use_ai_category) ==
    {f \in Orderings(CategoryEntries(accs, txs, u, sd, ed, use_ai_category)) :
        \A i, j \in 1..Len(f) : i < j => f[i].amount >= f[j].amount}

\* GET /reimbursements: the selected rows that carry the flag, latest
\* date first (rows of one date in no stated order).          analytics.py:271-305
Reimbursements(accs, txs, u, sd, ed) ==
    LET rows == {r \in Selected(accs, txs, u, sd, ed) : r.is_reimbursement}
        entries == {[transaction_id |-> r.id, date |-> IsoDate(r.date),
                     merchant_name |-> IF r.merchant_name \in {NoneStr, ""}
                                       THEN "Unknown" ELSE r.merchant_name,
                     amount |-> r.amount,
                     description |-> r.description] : r \in rows}
    IN {f \in Orderings(entries) :
          \A i, j \in 1..Len(f) : i < j => ~KeyLess(f[i].date, f[j].date)}

\* GET /summary                                               analytics.py:322-374
SpendingSummary(accs, txs, u, sd, ed) ==
    LET rows == Selected(accs, txs, u, sd, ed)
        total_spent == SumAmounts(rows)
        dates == {r.date : r \in rows}
    IN IF rows = {}
       THEN [total_spent |-> 0, transaction_count |-> 0, average_transaction |-> 0,
             reimbursements_total |-> 0, unique_merchants |-> 0]
       ELSE [total_spent |-> total_spent,
             transaction_count |-> Cardinality(rows),
             average_transaction |-> RoundDiv(total_spent, Cardinality(rows)),
             reimbursements_total |-> SumAmounts({r \in rows : r.is_reimbursement}),
             unique_merchants |->
                 Cardinality({r.merchant_name : r \in rows} \ {NoneStr, ""}),
             date_range |->
                 [start |-> IsoDate(CHOOSE d \in dates : \A e \in dates : d <= e),
                  end |-> IsoDate(CHOOSE d \in dates : \A e \in dates : e <= d)]]

\* The request a read answers, and the bodies it can answer with.
ReadRequest(route, u, sd, ed, option, account_ids) ==
    [route |-> route, user |-> u, start_date |-> sd, end_date |-> ed,
     option |-> option, account_ids |-> account_ids]

Bodies(req, accs, txs) ==
    CASE req.route = "spending-by-card" ->
            {SpendingByCard(accs, txs, req.user, req.start_date, req.end_date)}
      [] req.route = "spending-over-time" ->
            {SpendingOverTime(accs, txs, req.user, req.option, req.start_date,
                              req.end_date, req.account_ids)}
      [] req.route = "categories" ->
            CategoryBreakdown(accs, txs, req.user, req.start_date, req.end_date,
                              req.option = "ai")
      [] req.route = "reimbursements" ->
            Reimbursements(accs, txs, req.user, req.start_date, req.end_date)
      [] req.route = "summary" ->
            {SpendingSummary(accs, txs, req.user, req.start_date, req.end_date)}

\* The answers of one read: a date string that does not parse raises
\* ValueError, which `except Exception` answers with status 500;
\* otherwise the body.                                        analytics.py:121-123
Answers(req) ==
    IF ~DatesParse(req.start_date, req.end_date)
    THEN {HTTPException(500, "Invalid isoformat string")}
    ELSE {[status |-> 200, request |-> req, body |-> body] :
              body \in Bodies(req, accounts, transactions)}

get_spending_by_card(u, sd, ed) ==
    /\ response' \in Answers(ReadRequest("spending-by-card", u, sd, ed, NoneStr, <<>>))
    /\ UNCHANGED <<plaid_items, accounts, transactions, now, task, users, ai_insights>>

get_spending_over_time(u, granularity, sd, ed, account_ids) ==
    /\ response' \in Answers(ReadRequest("spending-over-time", u, sd, ed,
                                         granularity, account_ids))
    /\ UNCHANGED <<plaid_items, accounts, transactions, now, task, users, ai_insights>>

get_category_breakdown(u, sd, ed, use_ai_category) ==
    /\ response' \in Answers(ReadRequest("categories", u, sd, ed,
                                         IF use_ai_category THEN "ai" ELSE "plaid",
                                         <<>>))
    /\ UNCHANGED <<plaid_items, accounts, transactions, now, task, users, ai_insights>>

get_reimbursements(u, sd, ed) ==
    /\ response' \in Answers(ReadRequest("reimbursements", u, sd, ed, NoneStr, <<>>))
    /\ UNCHANGED <<plaid_items, accounts, transactions, now, task, users, ai_insights>>

get_spending_summary(u, sd, ed) ==
    /\ response' \in Answers(ReadRequest("summary", u, sd, ed, NoneStr, <<>>))
    /\ UNCHANGED <<plaid_items, accounts, transactions, now, task, users, ai_insights>>

(***************************************************************************)
(* SpecAnalytics: the reads over a store of the three linked accounts and  *)
(* any of the rows below.  Rows of source "manual" stand for transactions  *)
(* written by other means than the sync; they may carry the reimbursement  *)
(* flag.                                                                   *)
(***************************************************************************)
StoredRow(id, account_id, amount, date, merchant_name, category, ai_category, source, is_reimbursement) ==
    [id |-> id, external_id |-> id, account_id |-> account_id, amount |-> amount,
     date |-> date, merchant_name |-> merchant_name, description |-> "CARD PURCHASE",
     category |-> category, source |-> source,
     is_reimbursement |-> is_reimbursement, ai_category |-> ai_category]

RowPool ==
    {StoredRow(1, 1, 1000, Day0 - 1, "Cafe", "Food and Drink", "Dining", "plaid", FALSE),
     StoredRow(2, 1, -1000, Day0 - 3, NoneStr, "Transfer", NoneStr, "manual", TRUE),
     StoredRow(3, 2, 500, Day0 - 4, "Cafe", "Food and Drink", NoneStr, "plaid", FALSE),
     StoredRow(4, 3, 2000, Day0 - 1, "Bar", "Food and Drink", "Dining", "plaid", FALSE),
     StoredRow(5, 3, -500, Day0 - 2, "", "Transfer", "Refunds", "manual", TRUE),
     StoredRow(6, NoneId, 700, Day0 - 3, "Cafe", "Food and Drink", "Dining", "manual", TRUE)}

AnalyticsStores == SUBSET RowPool

ReadDates ==
    {<<NoneStr, NoneStr>>, <<"2024-02-12", NoneStr>>, <<"", "2024-02-12">>,
     <<"not-a-date", NoneStr>>}
Granularities == {"daily", "weekly", "monthly"}
AccountIdLists == {<<>>, <<1>>, <<3>>}

InitAnalytics ==
    /\ plaid_items = LinkedItems
    /\ accounts = LinkedAccounts
    /\ transactions \in AnalyticsStores
    /\ now = Clock0
    /\ task = [t \in Tasks |-> IdleTask]
    /\ response = Reply(0)
    /\ users = {}
    /\ ai_insights = {}

NextAnalytics ==
    \E u \in Users, d \in ReadDates :
        \/ get_spending_by_card(u, d[1], d[2])
        \/ \E g \in Granularities, ids \in AccountIdLists :
                get_spending_over_time(u, g, d[1], d[2], ids)
        \/ \E use_ai_category \in BOOLEAN :
                get_category_breakdown(u, d[1], d[2], use_ai_category)
        \/ get_reimbursements(u, d[1], d[2])
        \/ get_spending_summary(u, d[1], d[2])

SpecAnalytics == InitAnalytics /\ [][NextAnalytics]_vars

(***************************************************************************)
(* Properties of the analytics reads, checked under SpecAnalytics.         *)
(***************************************************************************)
\* The response answers a read with a body.
Answered(r) == r.status = 200 /\ "request" \in DOMAIN r

\* The transactions of a store on an account of the user.
OwnRows(txs, u) ==
    {r \in txs : \E a \in accounts : a.id = r.account_id /\ a.user_id = u}

\* C12: the answer of every analytics read of user U is an answer the same
\* read has over every store that holds the same transactions on accounts
\* of U, whatever the rows of other users and the rows without account
\* in it.
C12_AnalyticsIsolation ==
    Answered(response) =>
        \A S \in AnalyticsStores :
            OwnRows(S, response.request.user) =
                OwnRows(transactions, response.request.user)
            => response.body \in Bodies(response.request, accounts, S)

\* The summary of u1 counts the two rows of u1 in a store that also holds
\* a row of u2 and a row without account.
C12_Witness ==
    /\ Answered(response)
    /\ response.request.route = "summary"
    /\ response.request.user = "u1"
    /\ response.body.transaction_count = 2
    /\ \E r \in transactions : r.account_id = 3
    /\ \E r \in transactions : r.account_id = NoneId

RECURSIVE SumEntries(_, _)
\* The total over the first n entries of a category breakdown.
SumEntries(entries, n) ==
    IF n = 0 THEN 0 ELSE SumEntries(entries, n - 1) + entries[n].amount

\* C17: in an answer of the category breakdown every percentage is 0 when
\* the total over the returned categories is 0, and is amount/total*100
\* rounded to two decimals for every other total, a negative one included.
C17_CategoryPercentage ==
    (Answered(response) /\ response.request.route = "categories") =>
        LET entries == response.body
            total == SumEntries(entries, Len(entries))
        IN \A i \in 1..Len(entries) :
              entries[i].percentage =
                  IF total = 0 THEN 0
                  ELSE RoundDiv(entries[i].amount * 10000, total)

\* A breakdown over a negative total (a refund alone) has been answered:
\* its only category is reported with percentage 0.
C17_Witness ==
    /\ Answered(response)
    /\ response.request.route = "categories"
    /\ Len(response.body) = 1
    /\ response.body[1].amount < 0
    /\ response.body[1].percentage = 0

\* The latest Monday that is not after day d.
LatestMonday(d) == CHOOSE m \in (d - 6)..d : Weekday(m) = 0

\* The rows a spending-over-time request selects from the store.
RequestRows(req) ==
    {r \in Selected(accounts, transactions, req.user, req.start_date, req.end_date) :
        req.account_ids # <<>> =>
            r.account_id \in {req.account_ids[i] : i \in 1..Len(req.account_ids)}}

\* C18: in a weekly answer of spending-over-time every selected transaction
\* of date d is counted in the bucket keyed by the latest Monday that is
\* not after d: each key is the date of a Monday, and its bucket holds
\* exactly the selected rows of that Monday and the six days after it,
\* whatever the weekday of d.
C18_WeeklyBucketIsMonday ==
    (Answered(response) /\ response.request.route = "spending-over-time"
        /\ response.request.option = "weekly") =>
        LET rows == RequestRows(response.request)
            body == response.body
        IN /\ \A r \in rows : \E i \in 1..Len(body) :
                  body[i].date = IsoDate(LatestMonday(r.date))
           /\ \A i \in 1..Len(body) : \E r \in rows :
                  LET m == LatestMonday(r.date)
                      week == {x \in rows : m <= x.date /\ x.date <= m + 6}
                  IN /\ body[i].date = IsoDate(m)
                     /\ body[i].transaction_count = Cardinality(week)
                     /\ body[i].amount = SumAmounts(week)

\* A weekly answer over a Sunday, a Monday and a Wednesday: the Sunday
\* 2024-02-11 is in the week of Monday 2024-02-05, the Monday 2024-02-12
\* and the Wednesday 2024-02-14 are in the week of 2024-02-12.
C18_Witness ==
    /\ Answered(response)
    /\ response.request.route = "spending-over-time"
    /\ response.request.option = "weekly"
    /\ Len(response.body) = 2
    /\ response.body[1].date = <<2024, 2, 5>>
    /\ response.body[1].transaction_count = 1
    /\ response.body[2].date = <<2024, 2, 12>>
    /\ response.body[2].transaction_count = 2

(***************************************************************************)
(* detect_reimbursement of the two LLM providers.  Texts are strings;      *)
(* a confidence is held in hundredths (0.7 is 70).                         *)
(***************************************************************************)
UpperCase == "ABCDEFGHIJKLMNOPQRSTUVWXYZ"
LowerCase == "abcdefghijklmnopqrstuvwxyz"

RECURSIVE Lower(_)
\* str.lower(): every upper-case letter replaced by its lower-case one.
Lower(text) ==
    IF text = "" THEN ""
    ELSE LET c == Head(text)
             at == {i \in 1..Len(UpperCase) : SubSeq(UpperCase, i, i) = c}
         IN (IF at = {} THEN c
             ELSE LET i == CHOOSE j \in at : TRUE IN SubSeq(LowerCase, i, i))
            \o Lower(Tail(text))

\* keyword in text
Contains(keyword, text) ==
    \E i \in 1..(Len(text) - Len(keyword) + 1) :
        SubSeq(text, i, i + Len(keyword) - 1) = keyword

\* dict.get(key, default): the default only when the key is missing.
Get(transaction, key, default) ==
    IF key \in DOMAIN transaction THEN transaction[key] ELSE default

\* f"{value}" of a text or of None.
Format(value) == IF value = NoneStr THEN "None" ELSE value

\* The amount of a transaction dict is a one-element tuple, and the empty
\* tuple when it is None.
NoneAmount == <<>>

\* f"${amount:.2f}" raises TypeError when the amount is None; it is
\* evaluated while the prompt is built, before the try block.
\*                              ollama_provider.py:80-89, openai_provider.py:84-93
PromptRaises(transaction) == Get(transaction, "amount", <<0>>) = NoneAmount

\* json.loads on the contents the model's backend answers with: the parsed
\* value, or the exception raised.
JsonLoads(content) ==
    CASE content = "{\"is_reimbursement\": true, \"confidence\": 0.9}" ->
            [type |-> "dict", keys |-> {"is_reimbursement", "confidence"},
             is_reimbursement |-> TRUE, confidence |-> 90]
      [] content = "{\"reasoning\": \"unclear\"}" ->
            [type |-> "dict", keys |-> {"reasoning"}]
      [] content = "[true, 0.9]" -> [type |-> "list"]
      [] content = "null" -> [type |-> "NoneType"]
      [] content = NoneStr -> [type |-> "TypeError"]
      [] OTHER -> [type |-> "JSONDecodeError"]

\* The try block of detect_reimbursement: the pair read from the parsed
\* object with its defaults, or "except" when the call, json.loads or
\* result.get (on a value that is no dict) raises.
\*                              ollama_provider.py:91-97, openai_provider.py:95-103
ParsedPair(llm) ==
    IF llm.kind = "raises" THEN "except"
    ELSE LET result == JsonLoads(llm.content)
         IN IF result.type # "dict" THEN "except"
            ELSE <<IF "is_reimbursement" \in result.keys
                   THEN result.is_reimbursement ELSE FALSE,
                   IF "confidence" \in result.keys THEN result.confidence ELSE 50>>

\* Mutant of OpenAIKeywords: the list without "venmo".
OpenAIKeywordsShort == <<"reimburse", "paid back", "split", "zelle", "repay", "refund">>

\*                                                    ollama_provider.py:100-108
OllamaKeywords ==
    <<"reimburse", "paid back", "split", "venmo", "zelle", "repay", "refund">>

\*                                                    openai_provider.py:106-114
OpenAIKeywords ==
    <<"reimburse", "paid back", "split", "venmo", "zelle", "repay", "refund">>

\* OllamaProvider.detect_reimbursement             ollama_provider.py:75-113
OllamaProvider_detect_reimbursement(transaction, llm) ==
    LET description == Get(transaction, "description", "")
        merchant == Get(transaction, "merchant_name", "")
    IN IF PromptRaises(transaction) THEN "TypeError"
       ELSE IF ParsedPair(llm) # "except" THEN ParsedPair(llm)
       ELSE LET text == Lower(Format(description) \o " " \o Format(merchant))
            IN IF \E k \in 1..Len(OllamaKeywords) : Contains(OllamaKeywords[k], text)
               THEN <<TRUE, 70>> ELSE <<FALSE, 30>>

\* OpenAIProvider.detect_reimbursement              openai_provider.py:79-119
OpenAIProvider_detect_reimbursement(transaction, llm) ==
    LET description == Get(transaction, "description", "")
        merchant == Get(transaction, "merchant_name", "")
    IN IF PromptRaises(transaction) THEN "TypeError"
       ELSE IF ParsedPair(llm) # "except" THEN ParsedPair(llm)
       ELSE LET text == Lower(Format(description) \o " " \o Format(merchant))
            IN IF \E k \in 1..Len(OpenAIKeywords) : Contains(OpenAIKeywords[k], text)
               THEN <<TRUE, 70>> ELSE <<FALSE, 30>>

\* What one call of detect_reimbursement leaves: the provider, its
\* arguments, the backend's answer (none when the prompt raised) and the
\* value returned or the exception.
Detection(provider, transaction, llm, result) ==
    [status |-> 0, provider |-> provider, transaction |-> transaction,
     llm |-> IF PromptRaises(transaction) THEN [kind |-> "not called"] ELSE llm,
     result |-> result]

OllamaDetect(transaction, llm) ==
    /\ response' = Detection("ollama", transaction, llm,
                             OllamaProvider_detect_reimbursement(transaction, llm))
    /\ UNCHANGED <<plaid_items, accounts, transactions, now, task, users, ai_insights>>

OpenAIDetect(transaction, llm) ==
    /\ response' = Detection("openai", transaction, llm,
                             OpenAIProvider_detect_reimbursement(transaction, llm))
    /\ UNCHANGED <<plaid_items, accounts, transactions, now, task, users, ai_insights>>

(***************************************************************************)
(* SpecLLM: calls of detect_reimbursement on transaction dicts, with every *)
(* answer of the backend.                                                  *)
(***************************************************************************)
DetectDescriptions == {"Paid", "SPLIT dinner", "Lunch", "Prepayment", NoneStr}
DetectMerchants == {"back", "Venmo", "Cafe", NoneStr}

DetectTransactions ==
    {[description |-> d, merchant_name |-> m, amount |-> a] :
        d \in DetectDescriptions, m \in DetectMerchants, a \in {<<2500>>, NoneAmount}}
    \cup {[merchant_name |-> "Zelle"], [description |-> "Refund"],
          [description |-> "Re", merchant_name |-> "FUND"]}

DetectLlm ==
    {LlmRaises, LlmText(NoneStr), LlmText("null"), LlmText("[true, 0.9]"),
     LlmText("This looks like a refund."),
     LlmText("{\"reasoning\": \"unclear\"}"),
     LlmText("{\"is_reimbursement\": true, \"confidence\": 0.9}")}

InitLLM ==
    /\ plaid_items = {}
    /\ accounts = {}
    /\ transactions = {}
    /\ now = Clock0
    /\ task = [t \in Tasks |-> IdleTask]
    /\ response = Reply(0)
    /\ users = {}
    /\ ai_insights = {}

NextLLM ==
    \E transaction \in DetectTransactions, llm \in DetectLlm :
        \/ OllamaDetect(transaction, llm)
        \/ OpenAIDetect(transaction, llm)

SpecLLM == InitLLM /\ [][NextLLM]_vars

(***************************************************************************)
(* Properties of detect_reimbursement, checked under SpecLLM.              *)
(***************************************************************************)
\* The response is what a call of detect_reimbursement left.
Detected(r) == "provider" \in DOMAIN r

\* The backend answered (or failed) and the answer is no JSON object.
Unparsable(llm) ==
    \/ llm.kind = "raises"
    \/ /\ llm.kind = "content"
       /\ llm.content \notin {"{\"reasoning\": \"unclear\"}",
                              "{\"is_reimbursement\": true, \"confidence\": 0.9}"}

\* The text of a field of the transaction, empty when there is none.
FieldText(transaction, key) ==
    IF key \in DOMAIN transaction /\ transaction[key] # NoneStr
    THEN transaction[key] ELSE ""

FallbackKeywords ==
    {"reimburse", "paid back", "split", "venmo", "zelle", "repay", "refund"}

\* C19: when the backend's answer is no JSON object, detect_reimbursement
\* of either provider returns (true, 0.7) if the lower-cased text
\* "description merchant" contains one of the seven keywords and
\* (false, 0.3) otherwise, and the other provider returns the same pair for
\* the same transaction and the same answer.
C19_ReimbursementFallback ==
    (Detected(response) /\ Unparsable(response.llm)) =>
        LET txn == response.transaction
            text == Lower(FieldText(txn, "description") \o " "
                          \o FieldText(txn, "merchant_name"))
        IN /\ response.result =
                  IF \E k \in FallbackKeywords : Contains(k, text)
                  THEN <<TRUE, 70>> ELSE <<FALSE, 30>>
           /\ OllamaProvider_detect_reimbursement(txn, response.llm) =
                  OpenAIProvider_detect_reimbursement(txn, response.llm)

\* The OpenAI provider was answered with prose for the transaction
\* "Paid" / "Venmo" and returned (true, 0.7) from the keyword scan.
C19_Witness ==
    /\ Detected(response)
    /\ response.provider = "openai"
    /\ response.llm = LlmText("This looks like a refund.")
    /\ response.transaction =
           [description |-> "Paid", merchant_name |-> "Venmo", amount |-> <<2500>>]
    /\ response.result = <<TRUE, 70>>

(***************************************************************************)
(* Bulk categorization: POST /api/ai/bulk-categorize and its background    *)
(* task.  session_ai holds the ai_category assignments of the task's       *)
(* session until the commit; llm_calls records, in order, the id of each   *)
(* row categorized and what the backend did on its call.                   *)
(***************************************************************************)
BulkTask(transaction_ids) ==
    [pc |-> "bulk_scheduled", transaction_ids |-> transaction_ids, index |-> 1,
     session_ai |-> <<>>, llm_calls |-> <<>>, error |-> "none"]

\* .where(Transaction.ai_category == None)                    ai.py:219-223
Uncategorized(txs) == {r \in txs : r.ai_category = NoneStr}

\* .limit(limit): any limit rows of the selection, the query stating no
\* order.
Limited(rows, limit) ==
    {chosen \in SUBSET rows :
        Cardinality(chosen) = IF limit < Cardinality(rows) THEN limit
                              ELSE Cardinality(rows)}

\* bulk_categorize_transactions                               ai.py:206-241
bulk_categorize_transactions(t, limit) ==
    /\ AtRest(t)
    /\ \E chosen \in Limited(Uncategorized(transactions), limit) :
          IF chosen = {}
          THEN /\ response' = [status |-> 200, count |-> 0,
                               message |-> "No uncategorized transactions found"]
               /\ task' = [task EXCEPT ![t] = IdleTask]
          ELSE /\ \E ids \in Orderings({r.id : r \in chosen}) :
                      task' = [task EXCEPT ![t] = BulkTask(ids)]
               /\ response' = [status |-> 200, count |-> Cardinality(chosen),
                               message |-> "Bulk categorization started"]
    /\ UNCHANGED <<plaid_items, accounts, transactions, now, users, ai_insights>>

\* llm = get_llm_provider(): a configuration without provider raises
\* ValueError, which the outer handler logs before rolling back.
\*                                                    ai.py:249-250, 277-279
BulkStart(t, configured) ==
    /\ task[t].pc = "bulk_scheduled"
    /\ task' = [task EXCEPT ![t] =
                   IF configured THEN [@ EXCEPT !.pc = "categorizing"]
                   ELSE [@ EXCEPT !.pc = "done", !.error = "ValueError"]]
    /\ UNCHANGED <<plaid_items, accounts, transactions, now, response, users, ai_insights>>

\* One turn of the loop: the row of the next id is read; a missing row is
\* passed over; otherwise the provider's label is assigned to the row in
\* the session.  The provider returns a label on every call of a stored
\* row, "Other" when its backend raises, so the handler around the call
\* (ai.py:270-272) is never entered.                           ai.py:252-272
BulkCategorizeNext(t, llm) ==
    /\ task[t].pc = "categorizing"
    /\ task[t].index <= Len(task[t].transaction_ids)
    /\ LET txn_id == task[t].transaction_ids[task[t].index]
       IN task' = [task EXCEPT ![t] =
              IF \A r \in transactions : r.id # txn_id
              THEN [@ EXCEPT !.index = @ + 1]
              ELSE [@ EXCEPT !.index = @ + 1,
                             !.session_ai = Append(@, <<txn_id, categorize_transaction(llm)>>),
                             !.llm_calls = Append(@, <<txn_id, llm>>)]]
    /\ UNCHANGED <<plaid_items, accounts, transactions, now, response, users, ai_insights>>

\* await db.commit() after the loop: the assignments of the session reach
\* the table.                                                  ai.py:274-275
BulkCommit(t) ==
    /\ task[t].pc = "categorizing"
    /\ task[t].index > Len(task[t].transaction_ids)
    /\ transactions' =
          {IF \E k \in 1..Len(task[t].session_ai) : task[t].session_ai[k][1] = r.id
           THEN [r EXCEPT !.ai_category =
                    task[t].session_ai[CHOOSE k \in 1..Len(task[t].session_ai) :
                                           task[t].session_ai[k][1] = r.id][2]]
           ELSE r : r \in transactions}
    /\ task' = [task EXCEPT ![t] = [@ EXCEPT !.pc = "done", !.session_ai = <<>>]]
    /\ UNCHANGED <<plaid_items, accounts, now, response, users, ai_insights>>

\* A statement of the session raises (the database is not reachable): the
\* outer handler rolls the session back.                       ai.py:277-279
BulkDbError(t) ==
    /\ task[t].pc = "categorizing"
    /\ task' = [task EXCEPT ![t] =
                   [@ EXCEPT !.pc = "done", !.session_ai = <<>>, !.error = "db"]]
    /\ UNCHANGED <<plaid_items, accounts, transactions, now, response, users, ai_insights>>

(***************************************************************************)
(* SpecBulk: bulk categorizations served one after another over a store    *)
(* of three uncategorized rows and a categorized one.                      *)
(***************************************************************************)
BulkStore ==
    {StoredRow(1, 1, 1000, Day0 - 1, "Cafe", "Food and Drink", NoneStr, "plaid", FALSE),
     StoredRow(2, 1, -1000, Day0 - 3, NoneStr, "Transfer", NoneStr, "manual", FALSE),
     StoredRow(3, 2, 500, Day0 - 4, "Cafe", "Food and Drink", NoneStr, "plaid", FALSE),
     StoredRow(4, 3, 2000, Day0 - 1, "Bar", "Food and Drink", "Dining", "plaid", FALSE)}

BulkLimits == {1, 2, 100}
BulkLlm == {LlmText("Dining\n"), LlmText(" Groceries"), LlmRaises}

InitBulk ==
    /\ plaid_items = LinkedItems
    /\ accounts = LinkedAccounts
    /\ transactions = BulkStore
    /\ now = Clock0
    /\ task = [t \in Tasks |-> IdleTask]
    /\ response = Reply(0)
    /\ users = {}
    /\ ai_insights = {}

NextBulk ==
    \/ \E limit \in BulkLimits : bulk_categorize_transactions(1, limit)
    \/ \E configured \in BOOLEAN : BulkStart(1, configured)
    \/ \E llm \in BulkLlm : BulkCategorizeNext(1, llm)
    \/ BulkCommit(1)
    \/ BulkDbError(1)

SpecBulk == InitBulk /\ [][NextBulk]_vars

(***************************************************************************)
(* Properties of the bulk categorization, checked under SpecBulk.          *)
(***************************************************************************)
\* The background task of a bulk categorization has committed.
BulkCommitted(tk) ==
    "llm_calls" \in DOMAIN tk /\ tk.pc = "done" /\ tk.error = "none"

\* The ai_category of the stored row of an id.
AiCategoryOf(id) == (CHOOSE r \in transactions : r.id = id).ai_category

\* C20: when a bulk categorization has committed, every record of the batch
\* was attempted (the batch was not aborted), every record whose call of the
\* backend failed has no AI category, and every record whose call succeeded
\* has the label of its call.
C20_FailedRecordSkipped ==
    \A t \in Tasks :
        BulkCommitted(task[t]) =>
            /\ Len(task[t].llm_calls) = Len(task[t].transaction_ids)
            /\ \A k \in 1..Len(task[t].llm_calls) :
                  LET id == task[t].llm_calls[k][1]
                      llm == task[t].llm_calls[k][2]
                  IN AiCategoryOf(id) =
                        IF llm.kind = "raises" THEN NoneStr ELSE Strip[llm.content]

\* A batch of two has committed: the call of the first record failed, the
\* call of the second succeeded, and both records carry a label.
C20_Witness ==
    /\ BulkCommitted(task[1])
    /\ Len(task[1].llm_calls) = 2
    /\ task[1].llm_calls[1][2] = LlmRaises
    /\ task[1].llm_calls[2][2] = LlmText("Dining\n")
    /\ AiCategoryOf(task[1].llm_calls[1][1]) = "Other"
    /\ AiCategoryOf(task[1].llm_calls[2][1]) = "Dining"

(***************************************************************************)
(* get_llm_provider of services/llm/factory.py: the backend the settings   *)
(* select.                                                                 *)
(***************************************************************************)
\* Mutant of get_llm_provider: the hosted backend without the key check.
get_llm_provider_AnyKey(settings) ==
    LET provider == Lower(settings.LLM_PROVIDER)
    IN IF provider = "ollama"
       THEN [class |-> "OllamaProvider", model |-> settings.OLLAMA_MODEL]
       ELSE IF provider = "openai"
       THEN [class |-> "OpenAIProvider", model |-> settings.OPENAI_MODEL,
             api_key |-> settings.OPENAI_API_KEY]
       ELSE [class |-> "ValueError", message |-> "Unknown LLM provider"]

\* get_llm_provider: the provider object returned, or the ValueError
\* raised.                                                     factory.py:8-29
get_llm_provider(settings) ==
    LET provider == Lower(settings.LLM_PROVIDER)
    IN IF provider = "ollama"
       THEN [class |-> "OllamaProvider", model |-> settings.OLLAMA_MODEL]
       ELSE IF provider = "openai"
       THEN IF settings.OPENAI_API_KEY = ""
            THEN [class |-> "ValueError", message |-> "OPENAI_API_KEY is required"]
            ELSE [class |-> "OpenAIProvider", model |-> settings.OPENAI_MODEL,
                  api_key |-> settings.OPENAI_API_KEY]
       ELSE [class |-> "ValueError", message |-> "Unknown LLM provider"]

\* One call of the factory under given settings.
CallFactory(settings) ==
    /\ response' = [status |-> 0, provider |-> get_llm_provider(settings),
                    settings |-> settings]
    /\ UNCHANGED <<plaid_items, accounts, transactions, now, task, users, ai_insights>>

(***************************************************************************)
(* SpecFactory: calls of get_llm_provider under settings of every kind.    *)
(***************************************************************************)
NextFactory ==
    \E name \in {"ollama", "openai", "OLLAMA", "OpenAI", "invalid", "", "ollama ",
                 "anthropic"},
       key \in {"", "test-key", " "},
       ollama_model \in {"llama3", "mistral"},
       openai_model \in {"gpt-4o-mini", "gpt-4-turbo", "gpt-3.5-turbo"} :
        CallFactory([LLM_PROVIDER |-> name, OLLAMA_MODEL |-> ollama_model,
                     OPENAI_MODEL |-> openai_model, OPENAI_API_KEY |-> key])

SpecFactory == InitLLM /\ [][NextFactory]_vars

(***************************************************************************)
(* Properties of the factory, checked under SpecFactory.                   *)
(***************************************************************************)
\* The response is what a call of the factory left.
FactoryCalled(r) == "settings" \in DOMAIN r

\* Text a spells the lower-case text b, upper-case letters allowed.
Spells(a, b) ==
    /\ Len(a) = Len(b)
    /\ \A i \in 1..Len(a) :
          \/ SubSeq(a, i, i) = SubSeq(b, i, i)
          \/ \E k \in 1..Len(UpperCase) :
                /\ SubSeq(a, i, i) = SubSeq(UpperCase, k, k)
                /\ SubSeq(b, i, i) = SubSeq(LowerCase, k, k)

\* C21 as stated: the factory returns the local backend when the configured
\* name is 'ollama', the hosted backend when it is 'openai' and the key is
\* not empty, and raises ValueError for 'openai' with an empty key and for
\* every other name.
C21_BackendSelection ==
    FactoryCalled(response) =>
        response.provider.class =
            IF response.settings.LLM_PROVIDER = "ollama" THEN "OllamaProvider"
            ELSE IF response.settings.LLM_PROVIDER = "openai"
                    /\ response.settings.OPENAI_API_KEY # ""
            THEN "OpenAIProvider"
            ELSE "ValueError"

\* C21 amended: the same selection on the configured name read without
\* regard to case; the backend returned carries the configured model.
C21_BackendSelectionIgnoringCase ==
    FactoryCalled(response) =>
        LET st == response.settings
        IN IF Spells(st.LLM_PROVIDER, "ollama")
           THEN response.provider.class = "OllamaProvider"
                /\ response.provider.model = st.OLLAMA_MODEL
           ELSE IF Spells(st.LLM_PROVIDER, "openai") /\ st.OPENAI_API_KEY # ""
           THEN response.provider.class = "OpenAIProvider"
                /\ response.provider.model = st.OPENAI_MODEL
           ELSE response.provider.class = "ValueError"

\* The factory was called with the name 'OpenAI' and a key, and returned
\* the hosted backend.
C21_Witness ==
    /\ FactoryCalled(response)
    /\ response.settings.LLM_PROVIDER = "OpenAI"
    /\ response.settings.OPENAI_API_KEY = "test-key"
    /\ response.provider.class = "OpenAIProvider"

(***************************************************************************)
(* Registration: POST /api/auth/register.  Each task serves one request    *)
(* at a time; its record keeps the request and, once the request has       *)
(* ended, the reply and the id of the user it created (NoneId for none).   *)
(***************************************************************************)
RegisterTask(pc, email, username, reply, created) ==
    [pc |-> pc, email |-> email, username |-> username, reply |-> reply,
     created |-> created]

\* The request is answered: the reply is the last response, too.
RegisterEnds(t, email, username, reply, created) ==
    /\ task' = [task EXCEPT ![t] = RegisterTask("done", email, username, reply, created)]
    /\ response' = reply

\* existing_user = await auth_service.get_user_by_email(user_data.email)
\*                                      auth.py:78-84, auth_service.py:35-38
RegisterEmailCheck(t, email, username) ==
    /\ AtRest(t)
    /\ IF \E u \in users : u.email = email
       THEN RegisterEnds(t, email, username,
                         HTTPException(400, "Email already registered"), NoneId)
       ELSE /\ task' = [task EXCEPT ![t] =
                          RegisterTask("email_free", email, username, Reply(0), NoneId)]
            /\ UNCHANGED response
    /\ UNCHANGED <<plaid_items, accounts, transactions, now, users, ai_insights>>

\* existing_user = await auth_service.get_user_by_username(user_data.username)
\*                                      auth.py:86-92, auth_service.py:40-43
RegisterUsernameCheck(t) ==
    /\ task[t].pc = "email_free"
    /\ IF \E u \in users : u.username = task[t].username
       THEN RegisterEnds(t, task[t].email, task[t].username,
                         HTTPException(400, "Username already taken"), NoneId)
       ELSE /\ task' = [task EXCEPT ![t] = [@ EXCEPT !.pc = "name_free"]]
            /\ UNCHANGED response
    /\ UNCHANGED <<plaid_items, accounts, transactions, now, users, ai_insights>>

\* email and username are unique=True: an insert of a taken one makes the
\* commit raise IntegrityError.                                 user.py:14-15
UsersUniqueViolation(email, username) ==
    \E u \in users : u.email = email \/ u.username = username

\* auth_service.create_user: db.add(user), commit.  The route does not
\* catch the IntegrityError of the commit and main.py registers no handler
\* for it, so the request is answered with status 500.
\*                                     auth.py:94-112, auth_service.py:15-33
RegisterCreate(t) ==
    /\ task[t].pc = "name_free"
    /\ IF UsersUniqueViolation(task[t].email, task[t].username)
       THEN /\ RegisterEnds(t, task[t].email, task[t].username,
                            HTTPException(500, "Internal Server Error"), NoneId)
            /\ UNCHANGED users
       ELSE LET id == NewId(users)
            IN /\ users' = users \cup {[id |-> id, email |-> task[t].email,
                                        username |-> task[t].username]}
               /\ RegisterEnds(t, task[t].email, task[t].username,
                               [status |-> 201, user |-> id], id)
    /\ UNCHANGED <<plaid_items, accounts, transactions, now, ai_insights>>

(***************************************************************************)
(* SpecRegister: two tasks serving registrations, interleaved at every     *)
(* await.                                                                  *)
(***************************************************************************)
NextRegister ==
    \E t \in Tasks :
        \/ \E email \in {"ann@x.io", "bob@x.io"}, username \in {"ann", "bob"} :
                RegisterEmailCheck(t, email, username)
        \/ RegisterUsernameCheck(t)
        \/ RegisterCreate(t)

SpecRegister == InitLLM /\ [][NextRegister]_vars

(***************************************************************************)
(* Properties of the registration, checked under SpecRegister.             *)
(***************************************************************************)
\* A registration served by the task has ended.
Registered(tk) == tk.pc = "done" /\ "reply" \in DOMAIN tk

\* The statuses of a Conflict-kind error.
ConflictStatus == {400, 409}

\* A user other than the one the request created holds its email or its
\* username.
Taken(tk) ==
    \E u \in users : u.id # tk.created /\ (u.email = tk.email \/ u.username = tk.username)

\* C22: no two users share an email or a username, and a registration that
\* has ended while another user held its email or its username was answered
\* with a Conflict-kind error and created no user.
C22_RegistrationConflict ==
    /\ \A a, b \in users : a.id # b.id => a.email # b.email /\ a.username # b.username
    /\ \A t \in Tasks :
          (Registered(task[t]) /\ Taken(task[t])) =>
              /\ task[t].reply.status \in ConflictStatus
              /\ task[t].created = NoneId

\* Two registrations of one email passed their checks before either
\* inserted: one created the user, the other was answered with status 500.
C22_Witness ==
    /\ Registered(task[1]) /\ Registered(task[2])
    /\ task[1].email = task[2].email
    /\ task[1].created # NoneId
    /\ task[2].reply.status = 500
    /\ Cardinality(users) = 1

(***************************************************************************)
(* POST /api/ai/analyze of api/routes/ai.py: the insight trigger.          *)
(***************************************************************************)
\* AnalyzeRequest, with the user who sends it.  The route declares no
\* current-user dependency: the handler never reads the sender.  ai.py:21-43
AnalyzeRequest(u, sd, ed, account_ids, insight_type) ==
    [user |-> u, account_ids |-> account_ids, insight_type |-> insight_type,
     date_range_start |-> sd, date_range_end |-> ed]

\* query = select(Transaction) with the date and account filters of the
\* request: the rows of every user that pass them.               ai.py:62-73
AnalyzeRows(txs, req) ==
    {r \in InWindow(txs, req.date_range_start, req.date_range_end) :
        req.account_ids # <<>> =>
            r.account_id \in {req.account_ids[i] : i \in 1..Len(req.account_ids)}}

\* generate_insight of either provider: the text of the backend, and a
\* text that reports the error when the call raises.
\*                          ollama_provider.py:39-52, openai_provider.py:39-54
generate_insight(llm) ==
    IF llm.kind = "raises" THEN "Error generating insight" ELSE llm.content

\* AIInsight(insight_type=..., date_range_start=..., date_range_end=...,
\* content=..., model_used=...): the constructor call names no user_id, so
\* the column is None.                                          ai.py:114-120
AIInsight(id, insight_type, sd, ed, content, model_used) ==
    [user_id |-> NoneId, id |-> id, content |-> content,
     insight_type |-> insight_type,
     date_range_start |-> IF Given(sd) THEN DateOf(IsoFormat[sd]) ELSE NoneDT,
     date_range_end |-> IF Given(ed) THEN DateOf(IsoFormat[ed]) ELSE NoneDT,
     model_used |-> model_used]

\* user_id = Column(String(36), ForeignKey("users.id"), nullable=False):
\* the commit of a row without user raises IntegrityError.  ai_insight.py:14
NotNullViolation(row) == row.user_id = NoneId

\* What the handler answers, with the request and the rows handed to the
\* backend (none when generate_insight was not called).
AnalyzeFailure(status_code, detail, req, rows) ==
    [status |-> status_code, txn_data |-> {r.id : r \in rows},
     detail |-> detail, request |-> req]

\* AnalyzeResponse(insight=..., insight_id=..., model_used=...)  ai.py:125-129
AnalyzeResponse(ai_insight, req, rows) ==
    [status |-> 200, txn_data |-> {r.id : r \in rows}, request |-> req,
     model_used |-> ai_insight.model_used, insight |-> ai_insight.content,
     insight_id |-> ai_insight.id]

\* analyze_spending: a date that does not parse and a configuration
\* without provider raise, which `except Exception` answers with 500; no
\* row found answers 404; otherwise the backend is asked and the insight
\* is committed, and a commit that raises is answered with 500 as well.
\*                                                               ai.py:38-135
analyze_spending(req, llm, settings) ==
    LET rows == AnalyzeRows(transactions, req)
        provider == get_llm_provider(settings)
        ai_insight == AIInsight(NewId(ai_insights), req.insight_type,
                                req.date_range_start, req.date_range_end,
                                generate_insight(llm), provider.model)
    IN /\ IF ~DatesParse(req.date_range_start, req.date_range_end)
          THEN /\ response' = AnalyzeFailure(500, "Invalid isoformat string", req, {})
               /\ UNCHANGED ai_insights
          ELSE IF rows = {}
          THEN /\ response' = AnalyzeFailure(404,
                       "No transactions found for the specified criteria", req, {})
               /\ UNCHANGED ai_insights
          ELSE IF provider.class = "ValueError"
          THEN /\ response' = AnalyzeFailure(500, provider.message, req, {})
               /\ UNCHANGED ai_insights
          ELSE IF NotNullViolation(ai_insight)
          THEN /\ response' = AnalyzeFailure(500, "IntegrityError", req, rows)
               /\ UNCHANGED ai_insights
          ELSE /\ ai_insights' = ai_insights \cup {ai_insight}
               /\ response' = AnalyzeResponse(ai_insight, req, rows)
       /\ UNCHANGED <<plaid_items, accounts, transactions, now, task, users>>

(***************************************************************************)
(* SpecInsight: insight triggers of both users over stores of rows of      *)
(* SpecAnalytics: one of each user and one without account.                *)
(***************************************************************************)
InsightStores == SUBSET {r \in RowPool : r.id \in {1, 4, 6}}
InsightTypes == {"spending_analysis", "other"}
InsightLlm == {LlmText("You spend most on dining."), LlmRaises}
InsightSettings ==
    {[LLM_PROVIDER |-> "ollama", OLLAMA_MODEL |-> "llama3",
      OPENAI_MODEL |-> "gpt-4o-mini", OPENAI_API_KEY |-> ""],
     [LLM_PROVIDER |-> "openai", OLLAMA_MODEL |-> "llama3",
      OPENAI_MODEL |-> "gpt-4o-mini", OPENAI_API_KEY |-> ""]}

InitInsight ==
    /\ plaid_items = LinkedItems
    /\ accounts = LinkedAccounts
    /\ transactions \in InsightStores
    /\ now = Clock0
    /\ task = [t \in Tasks |-> IdleTask]
    /\ response = Reply(0)
    /\ users = {}
    /\ ai_insights = {}

NextInsight ==
    \E u \in Users, d \in ReadDates, ids \in AccountIdLists,
       insight_type \in InsightTypes, llm \in InsightLlm,
       settings \in InsightSettings :
        analyze_spending(AnalyzeRequest(u, d[1], d[2], ids, insight_type),
                         llm, settings)

SpecInsight == InitInsight /\ [][NextInsight]_vars

(***************************************************************************)
(* Properties of the insight trigger, checked under SpecInsight.           *)
(***************************************************************************)
\* The response answers an insight trigger.
Triggered(r) == "txn_data" \in DOMAIN r

\* The rows of the sender of a trigger that pass its filters.
OwnAnalyzeRows(req) == AnalyzeRows(OwnRows(transactions, req.user), req)

\* C23: a successful insight trigger stores exactly one new Insight row
\* owned by the requesting user, computed only from that user's
\* transactions in the requested window, and returns the generated text,
\* the id of that row and the model name; when no transaction of the user
\* matches the criteria it answers NotFound, calls no LLM and stores no
\* Insight.
C23_InsightTrigger ==
    [][Triggered(response') =>
        LET req == response'.request
            own == OwnAnalyzeRows(req)
        IN /\ response'.status = 200 =>
                /\ \E i \in ai_insights' \ ai_insights :
                      /\ ai_insights' = ai_insights \cup {i}
                      /\ i.user_id = req.user
                      /\ response'.insight = i.content
                      /\ response'.insight_id = i.id
                      /\ response'.model_used = i.model_used
                /\ response'.txn_data = {r.id : r \in own}
           /\ (DatesParse(req.date_range_start, req.date_range_end) /\ own = {}) =>
                /\ response'.status = 404
                /\ response'.txn_data = {}
                /\ ai_insights' = ai_insights]_vars

\* A trigger of a user without matching rows handed rows of another user
\* to the backend, and stored nothing.
C23_Witness ==
    /\ Triggered(response)
    /\ OwnAnalyzeRows(response.request) = {}
    /\ response.txn_data # {}
    /\ response.status = 500
    /\ ai_insights = {}

(***************************************************************************)
(* SpecSameItem: two background syncs of one item, scheduled together over *)
(* an empty store, with no serialization between them: their steps         *)
(* interleave, and either commits once both have made their existence      *)
(* checks.                                                                 *)
(***************************************************************************)
InitSameItem ==
    /\ plaid_items = LinkedItems
    /\ accounts = LinkedAccounts
    /\ transactions = {}
    /\ now = Clock0
    /\ task \in {[t \in Tasks |-> Scheduled(l.item_id, l.user, NoneDT, NoneDT)] : l \in Link}
    /\ response = SyncTransactionsResponse
    /\ users = {}
    /\ ai_insights = {}

\* Every sync has made its checks (or has ended without making them).
AllChecked == \A o \in Tasks : task[o].pc \in {"merged", "raised", "done"}

\* await db.commit() of a sync, taken once every sync has made its checks.
CommitAfterChecks(t) == AllChecked /\ Commit(t)

NextSameItem ==
    \E t \in Tasks :
        \/ SyncStart(t)
        \/ \E resp \in ConcResponses : FetchPage(t, resp)
        \/ ProviderError(t)
        \/ Merge(t)
        \/ CommitAfterChecks(t)
        \/ Rollback(t)

SpecSameItem == InitSameItem /\ [][NextSameItem]_vars

(***************************************************************************)
(* Properties of two interleaved syncs, checked under SpecSameItem.        *)
(***************************************************************************)
\* The external ids a sync has fetched.
FetchedIds(tk) == {tk.all_transactions[i].external_id : i \in 1..Len(tk.all_transactions)}

\* Both syncs have fetched all their pages and have ended.
BothEnded == \A t \in Tasks : task[t].pc = "done" /\ task[t].error # "provider"

\* The number of stored rows with an external id.
TimesStored(external_id) ==
    Cardinality({r \in transactions : r.external_id = external_id})

RECURSIVE SumCounts(_, _)
\* The number of transactions counted in the first n buckets of an answer.
SumCounts(body, n) ==
    IF n = 0 THEN 0 ELSE SumCounts(body, n - 1) + body[n].transaction_count

\* C25: in spending-over-time, for each granularity (daily, weekly,
\* monthly) every selected transaction contributes to exactly one bucket:
\* the bucket counts sum to the number of selected transactions, the bucket
\* amounts sum to their total amount, no bucket has count 0, and the
\* buckets are returned in strictly ascending key order.
C25_BucketsPartitionSelection ==
    (Answered(response) /\ response.request.route = "spending-over-time") =>
        LET rows == RequestRows(response.request)
            body == response.body
            g == response.request.option
        IN /\ g \in Granularities
           /\ \A r \in rows :
                 Cardinality({i \in 1..Len(body) : body[i].date = BucketKey(g, r.date)}) = 1
           /\ SumCounts(body, Len(body)) = Cardinality(rows)
           /\ SumEntries(body, Len(body)) = SumAmounts(rows)
           /\ \A i \in 1..Len(body) : body[i].transaction_count # 0
           /\ \A i, j \in 1..Len(body) : i < j => KeyLess(body[i].date, body[j].date)

\* An answer of several buckets, one of which counts several transactions.
C25_Witness ==
    /\ Answered(response)
    /\ response.request.route = "spending-over-time"
    /\ Len(response.body) >= 2
    /\ \E i \in 1..Len(response.body) : response.body[i].transaction_count >= 2
    /\ SumCounts(response.body, Len(response.body)) = 3

(***************************************************************************)
(* Properties of the rows without account, checked under SpecAnalytics.    *)
(***************************************************************************)
\* The stored rows with a null account reference.
Unlinked == {r \in transactions : r.account_id = NoneId}

\* C29: a transaction with a null account reference (as a sync inserts it
\* for a provider account that matches no linked one) is never counted or
\* returned by an analytics read of any user: the answers of
\* spending-by-card, spending-over-time, categories, reimbursements and
\* summary are those over the store without these rows, no card entry is
\* for the null account and no reimbursement returned is such a row.
C29_UnlinkedRowsExcluded ==
    Answered(response) =>
        LET req == response.request
        IN /\ response.body \in Bodies(req, accounts, transactions \ Unlinked)
           /\ req.route = "spending-by-card" =>
                 \A e \in response.body : e.account_id # NoneId
           /\ req.route = "reimbursements" =>
                 \A i \in 1..Len(response.body) :
                     response.body[i].transaction_id \notin {r.id : r \in Unlinked}

\* A read of reimbursements has returned a row of the user while a
\* reimbursement without account is stored.
C29_Witness ==
    /\ Answered(response)
    /\ response.request.route = "reimbursements"
    /\ Len(response.body) >= 1
    /\ \E r \in Unlinked : r.is_reimbursement
    /\ InWindow(Unlinked, response.request.start_date, response.request.end_date) # {}

(***************************************************************************)
(* Properties of empty pages in the pagination loop, checked under         *)
(* SpecPage.                                                               *)
(***************************************************************************)
\* The k-th response of a call is empty while its total-count is above the
\* offset consumed so far.
EmptyBelowTotal(tk, k) ==
    tk.responses[k].n = 0 /\ tk.responses[k].total > tk.requests[k].offset

\* After an empty page below the total the loop goes on and asks for the
\* same offset again: the call has not returned on it, and the request
\* after it, once issued, carries the offset of the one before.
ReissuesSameOffset(tk) ==
    \A k \in 1..Len(tk.responses) :
        EmptyBelowTotal(tk, k) =>
            /\ k = Len(tk.requests) => tk.pc = "fetch" /\ tk.has_more
                                        /\ tk.offset = tk.requests[k].offset
            /\ k < Len(tk.requests) => tk.requests[k + 1].offset = tk.requests[k].offset

\* C26 as stated: the loop makes progress only through non-empty pages: an
\* empty page with a total-count above the consumed offset makes
\* sync_transactions re-issue the request with the same offset, with no
\* other exit, so the call terminates only if every response received
\* while offset < total-count carries at least one record (or a call
\* raises).
C26_TerminatesOnlyWithoutEmptyPage ==
    /\ ReissuesSameOffset(task[1])
    /\ task[1].pc = "returned" =>
          \A k \in 1..Len(task[1].responses) :
              task[1].requests[k].offset < task[1].responses[k].total =>
                  task[1].responses[k].n >= 1

\* C26 amended: ... with no other exit, so the call terminates only on a
\* response that carries records up to its total-count or reports a
\* total-count not above the consumed offset (or when a call raises);
\* empty pages received before it do not prevent this.
C26_TerminatesOnlyAtTotal ==
    /\ ReissuesSameOffset(task[1])
    /\ task[1].pc = "returned" =>
          LET L == Len(task[1].responses)
          IN /\ L >= 1
             /\ L = Len(task[1].requests)
             /\ task[1].requests[L].offset + task[1].responses[L].n
                    >= task[1].responses[L].total
             /\ \A k \in 1..(L - 1) :
                    task[1].requests[k].offset + task[1].responses[k].n
                        < task[1].responses[k].total

\* A call has returned after an empty page below the total: the request
\* was issued again with the same offset and answered with records.
C26_Witness ==
    /\ task[1].pc = "returned"
    /\ Len(task[1].responses) >= 2
    /\ EmptyBelowTotal(task[1], 1)
    /\ task[1].requests[2].offset = task[1].requests[1].offset
    /\ task[1].responses[2].n >= 1

(***************************************************************************)
(* Properties of a sync whose drafts repeat an external id, checked under  *)
(* Spec.                                                                   *)
(***************************************************************************)
\* The drafts of a sync carry, more than once, an external id that was not
\* stored when the sync started.
RepeatsNewId(tk) ==
    \E i, j \in 1..Len(tk.all_transactions) :
        /\ i < j
        /\ tk.all_transactions[i].external_id = tk.all_transactions[j].external_id
        /\ tk.all_transactions[i].external_id \notin ExternalIds(tk.before_tx)

\* C27: when the drafts collected by one sync contain the same new
\* external id more than once (a record returned on two pages), the sync
\* stores that id exactly once and still completes successfully: it
\* commits the other new records and the timestamp updates.
C27_RepeatedDraftStoredOnce ==
    \A t \in Tasks :
        (/\ task[t].pc \in {"merged", "raised", "done"}
         /\ task[t].error \notin {"provider", "NoResultFound"}
         /\ RepeatsNewId(task[t])) =>
            /\ task[t].error = "none"
            /\ task[t].pc # "raised"
            /\ task[t].pc = "merged" =>
                  \A e \in FetchedIds(task[t]) :
                      Cardinality({r \in Applied(transactions, task[t].session_new) :
                                      r.external_id = e}) = 1
            /\ task[t].pc = "done" =>
                  /\ \A e \in FetchedIds(task[t]) : TimesStored(e) = 1
                  /\ \A a \in accounts :
                        a.user_id = task[t].user_id =>
                            /\ a.last_sync_timestamp # NoneDT
                            /\ a.last_sync_timestamp >= task[t].called_at

\* A sync has succeeded whose drafts carried a new id twice and another
\* new id once: both ids are stored, and the accounts are stamped.
C27_Witness ==
    \E t \in Tasks :
        /\ Succeeded(task[t])
        /\ RepeatsNewId(task[t])
        /\ Cardinality(FetchedIds(task[t])) = 2
        /\ FetchedIds(task[t]) \cap ExternalIds(task[t].before_tx) = {}
        /\ task[t].new_count = 2
        /\ \A e \in FetchedIds(task[t]) : TimesStored(e) = 1
        /\ \E a \in accounts : a.user_id = task[t].user_id

StampResponses == {[transactions |-> <<>>, total_transactions |-> 0]}

NextStamp ==
    \E t \in Tasks :
        \/ \E l \in Link : ExchangePublicToken(t, l, "ok")
        \/ \E l \in Link : SyncTrigger(t, l.user, l.item_id, NoneStr, NoneStr)
        \/ SyncStart(t)
        \/ \E resp \in StampResponses : FetchPage(t, resp)
        \/ ProviderError(t)
        \/ Merge(t)
        \/ Commit(t)
        \/ Rollback(t)
        \/ ClockRead(t) /\ Tick

SpecStamp == Init /\ [][NextStamp]_vars

(***************************************************************************)
(* Properties of the last-sync timestamp, checked under SpecStamp.         *)
(***************************************************************************)
\* The sync of task t commits in this step.
Commits(t) == task[t].pc = "merged" /\ task'[t].pc = "done" /\ task'[t].error = "none"

\* The row of an account after the step.
After(a) == CHOOSE b \in accounts' : b.id = a.id

\* What holds of the timestamp of every account in every step, overlapping
\* syncs or not: a new account is created with a null timestamp, no
\* account is removed, a timestamp changes only in the commit of a sync of
\* the account's owner, and never to null.
StampChangesOnlyOnOwnersCommit ==
    /\ \A b \in accounts' :
          (\A a \in accounts : a.id # b.id) => b.last_sync_timestamp = NoneDT
    /\ \A a \in accounts :
          /\ \E b \in accounts' : b.id = a.id
          /\ After(a).last_sync_timestamp # a.last_sync_timestamp =>
                /\ \E t \in Tasks : Commits(t) /\ task[t].user_id = a.user_id
                /\ After(a).last_sync_timestamp # NoneDT

\* C30 as stated: an account's last-sync timestamp is null from creation
\* until the first successful sync of its owner, changes only when a sync
\* of its owner commits, never returns to null once set, and never
\* decreases across successive successful syncs; a failed sync leaves it
\* unchanged.
C30_StampMonotone ==
    [][/\ StampChangesOnlyOnOwnersCommit
       /\ \A a \in accounts :
             a.last_sync_timestamp # NoneDT =>
                 After(a).last_sync_timestamp >= a.last_sync_timestamp]_vars

\* C30 amended: ... and never decreases across successive successful
\* syncs of which each starts after the one before it has committed; a
\* failed sync leaves it unchanged.
C30_StampMonotoneWithoutOverlap ==
    [][/\ StampChangesOnlyOnOwnersCommit
       /\ \A a \in accounts : \A t \in Tasks :
             (/\ Commits(t)
              /\ a.last_sync_timestamp # NoneDT
              /\ task[t].called_at >= a.last_sync_timestamp)
                 => After(a).last_sync_timestamp >= a.last_sync_timestamp]_vars

\* An account stamped by a first sync has been stamped later by a second
\* one, while an account of the other user is still without timestamp.
C30_Witness ==
    /\ \E t \in Tasks :
          /\ Succeeded(task[t])
          /\ \E a \in accounts : \E b \in task[t].before_acc :
                /\ a.id = b.id
                /\ a.user_id = task[t].user_id
                /\ b.last_sync_timestamp # NoneDT
                /\ a.last_sync_timestamp > b.last_sync_timestamp
    /\ \E a \in accounts : a.last_sync_timestamp = NoneDT
====
